---- MODULE Spec2Model ----
(***************************************************************************)
(* XSensMVNCalibrator: the calibration session of the XSens MVN driver.    *)
(*                                                                         *)
(* Three execution contexts are modelled:                                  *)
(*   - the thread that runs calibrateWithType (position: pc),              *)
(*   - a second caller thread that runs setBodyDimensions (position:       *)
(*     sbdPc) and the one-line call abortCalibration,                      *)
(*   - the MVN engine (XmeControl), which executes the commands it is      *)
(*     sent and delivers the three callbacks.                              *)
(* Every read of an atomic flag in a polling loop or in the test after it  *)
(* is a step of its own, so that a callback can fall between any two.      *)
(***************************************************************************)
EXTENDS Integers, Sequences, FiniteSets, TLC

(* ------------------------------ bounds -------------------------------- *)

\* calls the callers make in one behaviour (calibrateWithType, setBodyDimensions
\* and abortCalibration together)
MaxCalls == 3

(* ------------------------------ values -------------------------------- *)

\* calibration routines the caller may ask for
CalibrationTypes == {"Npose"}
\* m_usedCalibrationType when no calibration is valid
NoType == ""

\* xsensmvn::CalibrationQuality.  The enumeration is declared in
\* XsensMVNCalibrator.h; its order is the documented one,
\* Unknown < Failed < Poor < Acceptable < Good.
UNKNOWN == 0
FAILED == 1
POOR == 2
ACCEPTABLE == 3
GOOD == 4
CalibrationQuality == {UNKNOWN, FAILED, POOR, ACCEPTABLE, GOOD}

\* XmeCalibrationQuality, the grade the engine reports
XmeCalibrationQuality ==
    {"XCalQ_Unknown", "XCalQ_Failed", "XCalQ_Poor", "XCalQ_Acceptable", "XCalQ_Good"}

CalibrationQualitiesMap ==
    [q \in XmeCalibrationQuality |->
        CASE q = "XCalQ_Unknown" -> UNKNOWN
          [] q = "XCalQ_Failed" -> FAILED
          [] q = "XCalQ_Poor" -> POOR
          [] q = "XCalQ_Acceptable" -> ACCEPTABLE
          [] q = "XCalQ_Good" -> GOOD]

\* phase boundary lists calibrationPhaseList() may return
PhaseLists == {<<1, 3>>, <<0, 1, 2>>}

\* body dimension labels: the engine's vocabulary and the caller's keys
KnownLabels == {"ankleHeight"}
\* the caller's keys in the order std::map iterates them; the engine does not
\* know the first
LabelOrder == <<"aUnknown", "ankleHeight">>
Labels == {LabelOrder[i] : i \in 1..Len(LabelOrder)}

NoValue == "none"

\* a returned bool, as ret, sbdRet and abortRet hold it
Returned(b) == IF b THEN "true" ELSE "false"

(* ------------------------------ state --------------------------------- *)

VARIABLES
    \* the session (XSensMVNCalibrator members)
    m_minimumAccaptableQuality,
    m_achievedCalibrationQuality,
    m_usedCalibrationType,
    m_calibrationAborted,
    m_calibrationInProgress,
    m_calibrationProcessed,
    m_operationCompleted,
    \* the thread inside calibrateWithType
    pc,                 \* position in calibrateWithType, "idle" outside
    calibrationType,    \* the argument of the running call
    calibPhases,        \* phase boundaries of the running call
    phase,              \* index of the for loop (0-based in the code, 1-based here)
    startingFrame,
    quality,            \* calibrationResult.m_quality of the running call
    ret,                \* what the last returned call returned
    runs,               \* calls made so far
    \* the second caller thread
    sbdPc,              \* position in setBodyDimensions
    sbdArg,             \* keys of the map given to the running/last call
    sbdTodo,            \* keys the for loop has not visited yet
    sbdApplied,         \* keys for which setBodyDimension was sent
    sbdQueried,         \* bodyDimensionLabelList() was called by the running/last call
    sbdConnected,       \* status().isConnected() as the last call read it
    sbdRet,             \* what the last returned call returned
    sbdCalls,
    abortRet,           \* what the last abortCalibration() returned
    userAborts,         \* abortCalibration() calls of the second thread
    \* the engine
    performed,          \* types for which isCalibrationPerformed is true
    clearing,           \* types whose clearCalibration is being executed
    pendingAborted,     \* onCalibrationAborted callbacks not yet delivered
    pendingProcessed,   \* onCalibrationProcessed callbacks not yet delivered
    pendingComplete,    \* onCalibrationComplete callbacks not yet delivered
    \* observation of the running call
    cmds,               \* commands calibrateWithType sent, in order
    abortSent,          \* an abort command was sent since the call started
    abortNotified,      \* m_calibrationAborted was true at some point of the call
    completeSinceFinalize, \* onCalibrationComplete ran since finalize was sent
    frames,             \* the frames calibrationPose was called with, in order
    \* the lifetime of the session object
    life,               \* "alive", "destroying" inside the destructor, "destroyed"
    registered,         \* the engine holds the session as a callback handler
    \* a call of getBodyDimensions
    gbdConnected,       \* status().isConnected() as the call reads it
    gbdEstimate,        \* bodyDimensionValueEstimate of each label of the engine
    dimensions,         \* the caller's map, given by reference
    gbdRet,             \* what the call returned
    \* a call of getBodyDimension, on the same engine state
    gdName,             \* bodyName
    gdDim,              \* the caller's dim, given by reference
    gdRet,              \* what the call returned, "crashed" if it ended the process
    gdEndRead,          \* the call has read through the end iterator of its map
    \* the collection loop run on a phase list of any length
    clPhases,           \* calibPhases, as calibrationPhaseList() returned it
    clPhase,            \* the index of the for loop, counted from 0 as in the code
    clStart,            \* startingFrame
    clEnd,              \* endingFrame
    clPc,               \* "for", "while", "done", "failed", "crashed" or "unused"
    clFrames,           \* the frames calibrationPose was called with, in order
    clOutside,          \* an index outside calibPhases has been read
    \* the caller of getLastCalibrationInfo
    gliType,            \* the caller's type, given by reference
    gliQuality,         \* the caller's quality, given by value
    gliCalls,           \* calls of getLastCalibrationInfo
    \* a call of IAnalogSensorHandler::getStatus
    stInterface,        \* interface is not nullptr
    stChannels,         \* interface->getState(i) for each channel, in order
    stI,                \* the index of the for loop, counted from 0
    stStatus,           \* the local status
    stPc,               \* "call", "loop", "returned" or "unused"
    stRet,              \* what the call returned
    \* the IAnalogSensorToIWear device
    devFirstRun,        \* pImpl->firstRun
    devSensor,          \* the status of pImpl->iSensor, NoValue when it is null
    devNumberOfChannels, \* options.numberOfChannels
    devChannelOffset,   \* options.channelOffset
    devSensorType,      \* options.wearableSensorType
    devOp,              \* the last operation: "attach", "close", "read", "getStatus"
    devRet,             \* what the last operation returned
    devAttached,        \* an attach has returned true
    \* the IWearLogger device
    lgIWear,            \* pImpl->iWear is not null
    lgTimed,            \* pImpl->iPreciselyTimed is not null
    lgFirstRun,         \* pImpl->firstRun
    lgRunning,          \* the periodic thread has been started and not stopped
    lgStopAsked,        \* askToStop() has been called since the thread started
    lgStatus,           \* what iWear->getStatus() returns at this moment
    lgPc,               \* where run() is: "idle" between two cycles
    lgOp,               \* the last operation: "open", "attach", "detach", "run"
    lgAttachRet,        \* what the last attach returned
    lgWasDetached,      \* both pointers were null when the last attach began
    lgNull,             \* the cycle found a null pointer
    lgReads,            \* the kinds of the statuses the cycle has read
    lgCycleStop,        \* the cycle has called askToStop()
    lgLogged,           \* the cycle has reached the logging of the sensors
    lgFetches,          \* times the sensors were fetched from the device
    \* the LoggerType part of IWearLogger::impl::loadSettingsFromConfig
    ltConfig,           \* the LoggerType entry of the configuration
    ltI,                \* the index of the for loop, counted from 0
    ltPc,               \* "call", "loop", "done" or "unused"
    loggerType,         \* impl::loggerType
    \* a call of IAnalogSensorHandler::getData
    datOverload,        \* the overload: "double", "array3", "array4" or "vector"
    datSize,            \* buffer.size()
    datOffset,          \* offset
    datRead,            \* the indices of buffer the call has read
    datRet              \* what the call returned

session == <<m_minimumAccaptableQuality, m_achievedCalibrationQuality,
             m_usedCalibrationType, m_calibrationAborted, m_calibrationInProgress,
             m_calibrationProcessed, m_operationCompleted>>
calVars == <<pc, calibrationType, calibPhases, phase, startingFrame, quality, ret, runs>>
sbdVars == <<sbdPc, sbdArg, sbdTodo, sbdApplied, sbdQueried, sbdConnected, sbdRet,
             sbdCalls>>
abortVars == <<abortRet, userAborts>>
engineVars == <<performed, clearing, pendingAborted, pendingProcessed,
                pendingComplete>>
obsVars == <<cmds, abortSent, abortNotified, completeSinceFinalize, frames>>
lifeVars == <<life, registered>>
mainVars == <<session, calVars, sbdVars, abortVars, engineVars, obsVars, lifeVars>>
gbdVars == <<gbdConnected, gbdEstimate, dimensions, gbdRet,
             gdName, gdDim, gdRet, gdEndRead>>
\* the state of the operations that are specified apart from the calibration
clVars == <<clPhases, clPhase, clStart, clEnd, clPc, clFrames, clOutside>>
gliVars == <<gliType, gliQuality, gliCalls>>
stVars == <<stInterface, stChannels, stI, stStatus, stPc, stRet>>
devVars == <<devFirstRun, devSensor, devNumberOfChannels, devChannelOffset,
             devSensorType, devOp, devRet, devAttached>>
lgVars == <<lgIWear, lgTimed, lgFirstRun, lgRunning, lgStopAsked, lgStatus, lgPc,
            lgOp, lgAttachRet, lgWasDetached, lgNull, lgReads, lgCycleStop,
            lgLogged, lgFetches>>
ltVars == <<ltConfig, ltI, ltPc, loggerType>>
datVars == <<datOverload, datSize, datOffset, datRead, datRet>>
apartVars == <<gbdVars, clVars, gliVars, stVars, devVars, lgVars, ltVars, datVars>>
vars == <<mainVars, apartVars>>
\* what each operation specified apart leaves alone
gbdFrame == <<mainVars, clVars, gliVars, stVars, devVars, lgVars, ltVars, datVars>>
clFrame == <<mainVars, gbdVars, gliVars, stVars, devVars, lgVars, ltVars, datVars>>
gliFrame == <<mainVars, gbdVars, clVars, stVars, devVars, lgVars, ltVars, datVars>>
stFrame == <<mainVars, gbdVars, clVars, gliVars, devVars, lgVars, ltVars, datVars>>
devFrame == <<mainVars, gbdVars, clVars, gliVars, stVars, lgVars, ltVars, datVars>>
lgFrame == <<mainVars, gbdVars, clVars, gliVars, stVars, devVars, ltVars, datVars>>
ltFrame == <<mainVars, gbdVars, clVars, gliVars, stVars, devVars, lgVars, datVars>>
datFrame == <<mainVars, gbdVars, clVars, gliVars, stVars, devVars, lgVars, ltVars>>

\* calls made so far
Calls == runs + sbdCalls + userAborts + gliCalls

(* --------------------------- construction ----------------------------- *)

\* the session as the constructor leaves it, no call made yet
Constructed ==
    /\ m_minimumAccaptableQuality \in CalibrationQuality
    /\ m_achievedCalibrationQuality = UNKNOWN
    /\ m_usedCalibrationType = NoType
    /\ m_calibrationAborted = FALSE
    /\ m_calibrationInProgress = FALSE
    /\ m_calibrationProcessed = FALSE
    /\ m_operationCompleted = TRUE
    /\ pc = "idle"
    /\ calibrationType = NoType
    /\ calibPhases = <<>>
    /\ phase = 1
    /\ startingFrame = 0
    /\ quality = NoValue
    /\ ret = NoValue
    /\ runs = 0
    /\ sbdPc = "idle"
    /\ sbdArg = {}
    /\ sbdTodo = {}
    /\ sbdApplied = {}
    /\ sbdQueried = FALSE
    /\ sbdConnected = TRUE
    /\ sbdRet = NoValue
    /\ sbdCalls = 0
    /\ abortRet = NoValue
    /\ userAborts = 0
    /\ performed \in SUBSET CalibrationTypes
    /\ clearing = {}
    /\ pendingAborted = 0
    /\ pendingProcessed = 0
    /\ pendingComplete = 0
    /\ cmds = <<>>
    /\ abortSent = FALSE
    /\ abortNotified = FALSE
    /\ completeSinceFinalize = FALSE
    /\ frames = <<>>
    /\ life = "alive"
    /\ registered = TRUE

\* no call of getBodyDimensions made
GbdUnused ==
    /\ gbdConnected = TRUE
    /\ gbdEstimate = <<>>
    /\ dimensions = <<>>
    /\ gbdRet = NoValue
    /\ gdName = ""
    /\ gdDim = 0
    /\ gdRet = NoValue
    /\ gdEndRead = FALSE

\* the collection loop is not being run apart
ClUnused ==
    /\ clPhases = <<>>
    /\ clPhase = 0
    /\ clStart = 0
    /\ clEnd = 0
    /\ clPc = "unused"
    /\ clFrames = <<>>
    /\ clOutside = FALSE

\* getLastCalibrationInfo has not been called
GliUnused ==
    /\ gliType = NoValue
    /\ gliQuality = NoValue
    /\ gliCalls = 0

\* IAnalogSensorHandler::getStatus has not been called
StUnused ==
    /\ stInterface = FALSE
    /\ stChannels = <<>>
    /\ stI = 0
    /\ stStatus = NoValue
    /\ stPc = "unused"
    /\ stRet = NoValue

\* no IAnalogSensorToIWear device is used
DevUnused ==
    /\ devFirstRun = TRUE
    /\ devSensor = NoValue
    /\ devNumberOfChannels = 0
    /\ devChannelOffset = 0
    /\ devSensorType = NoValue
    /\ devOp = "unused"
    /\ devRet = NoValue
    /\ devAttached = FALSE

\* the IWearLogger as its constructor leaves it, no cycle begun
LgConstructed ==
    /\ lgIWear = FALSE
    /\ lgTimed = FALSE
    /\ lgFirstRun = TRUE
    /\ lgRunning = FALSE
    /\ lgStopAsked = FALSE
    /\ lgPc = "idle"
    /\ lgAttachRet = NoValue
    /\ lgWasDetached = TRUE
    /\ lgNull = FALSE
    /\ lgReads = {}
    /\ lgCycleStop = FALSE
    /\ lgLogged = FALSE
    /\ lgFetches = 0

\* no IWearLogger device is used
LgUnused ==
    /\ LgConstructed
    /\ lgStatus = NoValue
    /\ lgOp = "unused"

\* loadSettingsFromConfig has not been called
LtUnused ==
    /\ ltConfig = <<"absent", <<>>>>
    /\ ltI = 0
    /\ ltPc = "unused"
    /\ loggerType = NoValue

\* IAnalogSensorHandler::getData has not been called
DatUnused ==
    /\ datOverload = NoValue
    /\ datSize = 0
    /\ datOffset = 0
    /\ datRead = {}
    /\ datRet = NoValue

\* every operation specified apart is unused, except the one named
UnusedBut(op) ==
    /\ IF op = "gbd" THEN TRUE ELSE GbdUnused
    /\ IF op = "cl" THEN TRUE ELSE ClUnused
    /\ IF op = "gli" THEN TRUE ELSE GliUnused
    /\ IF op = "st" THEN TRUE ELSE StUnused
    /\ IF op = "dev" THEN TRUE ELSE DevUnused
    /\ IF op = "lg" THEN TRUE ELSE LgUnused
    /\ IF op = "lt" THEN TRUE ELSE LtUnused
    /\ IF op = "dat" THEN TRUE ELSE DatUnused

Init == Constructed /\ UnusedBut("none")

(* ------------------------- private functions -------------------------- *)

\* m_operationCompleted inverted instead of lowered
cleanup_TogglesCompleted ==
    /\ m_usedCalibrationType' = NoType
    /\ m_achievedCalibrationQuality' = UNKNOWN
    /\ m_calibrationProcessed' = FALSE
    /\ m_operationCompleted' = ~m_operationCompleted
    /\ m_calibrationInProgress' = FALSE
    /\ m_calibrationAborted' = FALSE

\* m_calibrationProcessed left as it is
cleanup_KeepsProcessed ==
    /\ m_usedCalibrationType' = NoType
    /\ m_achievedCalibrationQuality' = UNKNOWN
    /\ m_operationCompleted' = FALSE
    /\ m_calibrationInProgress' = FALSE
    /\ m_calibrationAborted' = FALSE
    /\ UNCHANGED m_calibrationProcessed

\* XSensMVNCalibrator::cleanup.  Each member is stored once and each callback
\* stores one member, so a callback that falls between two of these stores has
\* the effect of one that falls before or after all of them.
cleanup ==
    /\ m_usedCalibrationType' = NoType
    /\ m_achievedCalibrationQuality' = UNKNOWN
    /\ m_calibrationProcessed' = FALSE
    /\ m_operationCompleted' = FALSE
    /\ m_calibrationInProgress' = FALSE
    /\ m_calibrationAborted' = FALSE

\* "cleanup(); return false;"
FailureExit ==
    /\ cleanup
    /\ pc' = "idle"
    /\ ret' = "false"
    /\ UNCHANGED m_minimumAccaptableQuality

\* abortCalibration() without the test of m_calibrationInProgress
abortCalibration_Unguarded ==
    /\ pendingAborted' = pendingAborted + 1
    /\ UNCHANGED session

\* abortCalibration() that raises m_calibrationAborted itself
abortCalibration_SetsAborted ==
    /\ IF m_calibrationInProgress
          THEN /\ pendingAborted' = pendingAborted + 1
               /\ m_calibrationAborted' = TRUE
          ELSE UNCHANGED <<pendingAborted, m_calibrationAborted>>
    /\ UNCHANGED <<m_minimumAccaptableQuality, m_achievedCalibrationQuality,
                   m_usedCalibrationType, m_calibrationInProgress,
                   m_calibrationProcessed, m_operationCompleted>>

\* the body of abortCalibration(): the command goes to the engine, which will
\* confirm it with onCalibrationAborted; no member is written
abortCalibration ==
    /\ IF m_calibrationInProgress
          THEN pendingAborted' = pendingAborted + 1
          ELSE UNCHANGED pendingAborted
    /\ UNCHANGED session

\* the value abortCalibration() returns
abortCalibrationResult == m_calibrationInProgress

\* the test of line 249 with <= for <
QualityBelowMinimum_OrEqual(q) == CalibrationQualitiesMap[q] <= m_minimumAccaptableQuality

\* the test of line 249
QualityBelowMinimum(q) == CalibrationQualitiesMap[q] < m_minimumAccaptableQuality

\* m_suitsConnector.isCalibrationPerformed(type)
isCalibrationPerformed(t) == t \in performed

\* line 170 left out
AbortedAfterDiscard_Missing == FALSE

\* line 278 giving m_operationCompleted priority over m_calibrationAborted
AbortedAfterFinalize_CompletionFirst == m_calibrationAborted /\ ~m_operationCompleted

\* line 199 left out
AbortedAfterCollection_Missing == FALSE

\* lines 225-226 run whatever the flag says
AbortedAfterProcessing_Always == TRUE

\* the tests that follow the polling loops
AbortedAfterDiscard == m_calibrationAborted
AbortedAfterCollection == m_calibrationAborted
AbortedAfterProcessing == m_calibrationAborted
AbortedAfterFinalize == m_calibrationAborted

\* a rejection that does not wait for the engine's confirmation
RejectWaitOver_NoWait == TRUE

\* the loop of lines 167-169 left out
DiscardWaitOver_NoWait == TRUE

\* the exit conditions of the polling loops
DiscardWaitOver == ~(isCalibrationPerformed(calibrationType) /\ ~m_calibrationAborted)
ProcessingWaitOver == ~(~m_calibrationProcessed /\ ~m_calibrationAborted)
RejectWaitOver == ~(~m_calibrationAborted)
FinalizeWaitOver == ~(~m_operationCompleted /\ ~m_calibrationAborted)

\* lines 285-290 without the store of line 286
CommitCalibration_NoQuality ==
    /\ m_usedCalibrationType' = calibrationType
    /\ m_calibrationInProgress' = FALSE
    /\ pc' = "idle"
    /\ ret' = "true"
    /\ UNCHANGED <<m_minimumAccaptableQuality, m_achievedCalibrationQuality,
                   m_calibrationAborted, m_calibrationProcessed, m_operationCompleted>>

\* lines 285-290 without the store of line 289
CommitCalibration_StaysInProgress ==
    /\ m_usedCalibrationType' = calibrationType
    /\ m_achievedCalibrationQuality' = CalibrationQualitiesMap[quality]
    /\ pc' = "idle"
    /\ ret' = "true"
    /\ UNCHANGED <<m_minimumAccaptableQuality, m_calibrationAborted,
                   m_calibrationInProgress, m_calibrationProcessed,
                   m_operationCompleted>>

\* lines 285-290
CommitCalibration ==
    /\ m_usedCalibrationType' = calibrationType
    /\ m_achievedCalibrationQuality' = CalibrationQualitiesMap[quality]
    /\ m_calibrationInProgress' = FALSE
    /\ pc' = "idle"
    /\ ret' = "true"
    /\ UNCHANGED <<m_minimumAccaptableQuality, m_calibrationAborted,
                   m_calibrationProcessed, m_operationCompleted>>

(* -------------------------- calibrateWithType ------------------------- *)

\* lines 155-164
CalStart(t) ==
    /\ life = "alive"
    /\ pc = "idle"
    /\ Calls < MaxCalls
    /\ runs' = runs + 1
    /\ calibrationType' = t
    /\ m_calibrationInProgress' = TRUE
    /\ IF isCalibrationPerformed(t)
          THEN /\ m_usedCalibrationType' = NoType
               /\ m_achievedCalibrationQuality' = UNKNOWN
               /\ m_operationCompleted' = FALSE
               /\ clearing' = clearing \cup {t}
               /\ cmds' = <<"clear">>
          ELSE /\ UNCHANGED <<m_usedCalibrationType, m_achievedCalibrationQuality,
                              m_operationCompleted, clearing>>
               /\ cmds' = <<>>
    /\ pc' = "discardWait"
    /\ ret' = NoValue
    /\ quality' = NoValue
    /\ abortSent' = FALSE
    /\ abortNotified' = m_calibrationAborted
    /\ completeSinceFinalize' = FALSE
    /\ frames' = <<>>
    /\ UNCHANGED <<m_minimumAccaptableQuality, m_calibrationAborted,
                   m_calibrationProcessed, calibPhases, phase, startingFrame>>
    /\ UNCHANGED <<sbdVars, abortVars, performed, pendingAborted, pendingProcessed,
                   pendingComplete>>
    /\ UNCHANGED lifeVars
    /\ UNCHANGED apartVars

\* lines 167-169
DiscardWait ==
    /\ pc = "discardWait"
    /\ DiscardWaitOver
    /\ pc' = "discardCheck"
    /\ UNCHANGED <<session, calibrationType, calibPhases, phase, startingFrame,
                   quality, ret, runs, sbdVars, abortVars, engineVars, obsVars>>
    /\ UNCHANGED lifeVars
    /\ UNCHANGED apartVars

\* lines 170-179
DiscardCheck ==
    /\ pc = "discardCheck"
    /\ IF AbortedAfterDiscard
          THEN /\ FailureExit
               /\ UNCHANGED <<calibPhases, cmds>>
          ELSE /\ cmds' = Append(cmds, "initialize")
               /\ calibPhases' \in PhaseLists
               /\ pc' = "warmup"
               /\ UNCHANGED <<session, ret>>
    /\ UNCHANGED <<calibrationType, phase, startingFrame, quality, runs, sbdVars,
                   abortVars, engineVars, abortSent, abortNotified,
                   completeSinceFinalize>>
    /\ UNCHANGED lifeVars
    /\ UNCHANGED apartVars
    /\ UNCHANGED frames

\* lines 182-184
Warmup ==
    /\ pc = "warmup"
    /\ cmds' = Append(cmds, "start")
    /\ phase' = 1
    /\ pc' = "phaseLoop"
    /\ UNCHANGED <<session, calibrationType, calibPhases, startingFrame, quality,
                   ret, runs, sbdVars, abortVars, engineVars, abortSent,
                   abortNotified, completeSinceFinalize>>
    /\ UNCHANGED lifeVars
    /\ UNCHANGED apartVars
    /\ UNCHANGED frames

\* every phase begun at the first boundary
PhaseStart_FromFirst == calibPhases[1]

\* calibPhases[phase], line 188
PhaseStart == calibPhases[phase]

\* lines 187-190, and 208 once the for loop is over
PhaseLoop ==
    /\ pc = "phaseLoop"
    /\ IF phase < Len(calibPhases)
          THEN /\ startingFrame' = PhaseStart
               /\ pc' = "collect"
               /\ UNCHANGED <<cmds, pendingProcessed>>
          ELSE /\ cmds' = Append(cmds, "stop")
               /\ pendingProcessed' = pendingProcessed + 1
               /\ pc' = "resetProcessed"
               /\ UNCHANGED startingFrame
    /\ UNCHANGED <<session, calibrationType, calibPhases, phase, quality, ret, runs,
                   sbdVars, abortVars, performed, clearing, pendingAborted,
                   pendingComplete, abortSent, abortNotified,
                   completeSinceFinalize>>
    /\ UNCHANGED lifeVars
    /\ UNCHANGED apartVars
    /\ UNCHANGED frames

\* line 192: the test of the while loop
Collect ==
    /\ pc = "collect"
    /\ IF startingFrame < calibPhases[phase + 1] /\ ~m_calibrationAborted
          THEN pc' = "pose"
          ELSE pc' = "collectCheck"
    /\ UNCHANGED <<session, calibrationType, calibPhases, phase, startingFrame,
                   quality, ret, runs, sbdVars, abortVars, engineVars, obsVars>>
    /\ UNCHANGED lifeVars
    /\ UNCHANGED apartVars

\* lines 193-197: the body of the while loop
Pose ==
    /\ pc = "pose"
    /\ cmds' = Append(cmds, "pose")
    /\ frames' = Append(frames, startingFrame)
    /\ startingFrame' = startingFrame + 1
    /\ pc' = "collect"
    /\ UNCHANGED <<session, calibrationType, calibPhases, phase, quality, ret, runs,
                   sbdVars, abortVars, engineVars, abortSent, abortNotified,
                   completeSinceFinalize>>
    /\ UNCHANGED lifeVars
    /\ UNCHANGED apartVars

\* lines 199-205
CollectCheck ==
    /\ pc = "collectCheck"
    /\ IF AbortedAfterCollection
          THEN /\ FailureExit
               /\ UNCHANGED phase
          ELSE /\ phase' = phase + 1
               /\ pc' = "phaseLoop"
               /\ UNCHANGED <<session, ret>>
    /\ UNCHANGED <<calibrationType, calibPhases, startingFrame, quality, runs,
                   sbdVars, abortVars, engineVars, obsVars>>
    /\ UNCHANGED lifeVars
    /\ UNCHANGED apartVars

\* lines 212-213
ResetProcessed ==
    /\ pc = "resetProcessed"
    /\ m_calibrationProcessed' = FALSE
    /\ pc' = "procWait"
    /\ UNCHANGED <<m_minimumAccaptableQuality, m_achievedCalibrationQuality,
                   m_usedCalibrationType, m_calibrationAborted,
                   m_calibrationInProgress, m_operationCompleted>>
    /\ UNCHANGED <<calibrationType, calibPhases, phase, startingFrame, quality, ret,
                   runs, sbdVars, abortVars, engineVars, obsVars>>
    /\ UNCHANGED lifeVars
    /\ UNCHANGED apartVars

\* lines 218-221
ProcWait ==
    /\ pc = "procWait"
    /\ ProcessingWaitOver
    /\ pc' = "procCheck"
    /\ UNCHANGED <<session, calibrationType, calibPhases, phase, startingFrame,
                   quality, ret, runs, sbdVars, abortVars, engineVars, obsVars>>
    /\ UNCHANGED lifeVars
    /\ UNCHANGED apartVars

\* lines 224-227
ProcCheck ==
    /\ pc = "procCheck"
    /\ IF AbortedAfterProcessing
          THEN FailureExit
          ELSE /\ pc' = "evaluate"
               /\ UNCHANGED <<session, ret>>
    /\ UNCHANGED <<calibrationType, calibPhases, phase, startingFrame, quality, runs,
                   sbdVars, abortVars, engineVars, obsVars>>
    /\ UNCHANGED lifeVars
    /\ UNCHANGED apartVars

\* lines 232-272: the result is read and compared with the threshold; the
\* calibration is aborted (260) or finalized (272)
Evaluate(q) ==
    /\ pc = "evaluate"
    /\ quality' = q
    /\ IF QualityBelowMinimum(q)
          THEN /\ abortCalibration
               /\ cmds' = cmds \o (IF pendingAborted' > pendingAborted
                                      THEN <<"result", "abort">>
                                      ELSE <<"result">>)
               /\ abortSent' = (abortSent \/ pendingAborted' > pendingAborted)
               /\ pc' = "rejectWait"
               /\ UNCHANGED <<performed, pendingComplete>>
          ELSE /\ cmds' = cmds \o <<"result", "finalize">>
               /\ performed' = performed \cup {calibrationType}
               /\ pendingComplete' = pendingComplete + 1
               /\ pc' = "finalWait"
               /\ UNCHANGED <<session, pendingAborted, abortSent>>
    /\ completeSinceFinalize' = FALSE
    /\ UNCHANGED <<calibrationType, calibPhases, phase, startingFrame, ret, runs,
                   sbdVars, abortVars, clearing, pendingProcessed, abortNotified>>
    /\ UNCHANGED lifeVars
    /\ UNCHANGED apartVars
    /\ UNCHANGED frames

\* lines 261-265
RejectWait ==
    /\ pc = "rejectWait"
    /\ RejectWaitOver
    /\ FailureExit
    /\ UNCHANGED <<calibrationType, calibPhases, phase, startingFrame, quality, runs,
                   sbdVars, abortVars, engineVars, obsVars>>
    /\ UNCHANGED lifeVars
    /\ UNCHANGED apartVars

\* lines 273-275
FinalWait ==
    /\ pc = "finalWait"
    /\ FinalizeWaitOver
    /\ pc' = "finalCheck"
    /\ UNCHANGED <<session, calibrationType, calibPhases, phase, startingFrame,
                   quality, ret, runs, sbdVars, abortVars, engineVars, obsVars>>
    /\ UNCHANGED lifeVars
    /\ UNCHANGED apartVars

\* lines 278-290
FinalCheck ==
    /\ pc = "finalCheck"
    /\ IF AbortedAfterFinalize
          THEN FailureExit
          ELSE CommitCalibration
    /\ UNCHANGED <<calibrationType, calibPhases, phase, startingFrame, quality, runs,
                   sbdVars, abortVars, engineVars, obsVars>>
    /\ UNCHANGED lifeVars
    /\ UNCHANGED apartVars

(* ----------------------- the second caller thread --------------------- *)

\* abortCalibration() called by the user
AbortCalibration ==
    /\ life = "alive"
    /\ Calls < MaxCalls
    /\ userAborts' = userAborts + 1
    /\ abortCalibration
    /\ abortRet' = Returned(abortCalibrationResult)
    /\ abortSent' = (abortSent \/ pendingAborted' > pendingAborted)
    /\ UNCHANGED <<calVars, sbdVars, performed, clearing, pendingProcessed,
                   pendingComplete, cmds, abortNotified, completeSinceFinalize>>
    /\ UNCHANGED lifeVars
    /\ UNCHANGED apartVars
    /\ UNCHANGED frames

\* the key std::map iterates first
FirstLabel(S) ==
    LabelOrder[CHOOSE i \in 1..Len(LabelOrder) :
                   /\ LabelOrder[i] \in S
                   /\ \A j \in 1..(i - 1) : LabelOrder[j] \notin S]

\* line 88 left out
bodyDimensionsEmpty_Unchecked(dims) == FALSE

\* bodyDimensions.empty(), line 88
bodyDimensionsEmpty(dims) == dims = {}

\* every label taken for one of the engine's
bodyDimListFind_Any(l) == TRUE

\* bodyDimList.find(pair.first) != -1, line 97
bodyDimListFind(l) == l \in KnownLabels

\* setBodyDimensions, lines 74-93
SbdCall(dims, conn) ==
    /\ life = "alive"
    /\ sbdPc = "idle"
    /\ Calls < MaxCalls
    /\ sbdCalls' = sbdCalls + 1
    /\ sbdArg' = dims
    /\ sbdConnected' = conn
    /\ sbdApplied' = {}
    /\ IF ~conn \/ ~m_operationCompleted
          THEN /\ sbdQueried' = FALSE
               /\ sbdRet' = "false"
               /\ UNCHANGED <<sbdPc, sbdTodo, session>>
          ELSE /\ sbdQueried' = TRUE
               /\ IF bodyDimensionsEmpty(dims)
                     THEN /\ sbdRet' = "false"
                          /\ UNCHANGED <<sbdPc, sbdTodo, session>>
                     ELSE /\ m_operationCompleted' = FALSE
                          /\ sbdTodo' = dims
                          /\ sbdPc' = "loop"
                          /\ sbdRet' = NoValue
                          /\ UNCHANGED <<m_minimumAccaptableQuality,
                                         m_achievedCalibrationQuality,
                                         m_usedCalibrationType, m_calibrationAborted,
                                         m_calibrationInProgress,
                                         m_calibrationProcessed>>
    /\ UNCHANGED <<calVars, abortVars, engineVars, obsVars>>
    /\ UNCHANGED lifeVars
    /\ UNCHANGED apartVars

\* setBodyDimensions, lines 96-102: one iteration of the for loop
SbdLoop ==
    /\ sbdPc = "loop"
    /\ IF sbdTodo = {}
          THEN /\ sbdPc' = "wait"
               /\ UNCHANGED <<sbdTodo, sbdApplied, pendingComplete>>
          ELSE LET l == FirstLabel(sbdTodo) IN
               /\ sbdTodo' = sbdTodo \ {l}
               /\ IF bodyDimListFind(l)
                     THEN /\ sbdApplied' = sbdApplied \cup {l}
                          /\ pendingComplete' = pendingComplete + 1
                     ELSE UNCHANGED <<sbdApplied, pendingComplete>>
               /\ UNCHANGED sbdPc
    /\ UNCHANGED <<session, calVars, sbdArg, sbdQueried, sbdConnected, sbdRet, sbdCalls,
                   abortVars, performed, clearing, pendingAborted, pendingProcessed,
                   obsVars>>
    /\ UNCHANGED lifeVars
    /\ UNCHANGED apartVars

\* setBodyDimensions, lines 105-110
SbdWait ==
    /\ sbdPc = "wait"
    /\ m_operationCompleted
    /\ sbdRet' = Returned(m_operationCompleted)
    /\ sbdPc' = "idle"
    /\ UNCHANGED <<session, calVars, sbdArg, sbdTodo, sbdApplied, sbdQueried,
                   sbdConnected, sbdCalls, abortVars, engineVars, obsVars>>
    /\ UNCHANGED lifeVars
    /\ UNCHANGED apartVars

(* ------------------------------ the engine ---------------------------- *)

\* the engine finishes a clearCalibration request
EngineClear(t) ==
    /\ t \in clearing
    /\ clearing' = clearing \ {t}
    /\ performed' = performed \ {t}
    /\ pendingComplete' = pendingComplete + 1
    /\ UNCHANGED <<session, calVars, sbdVars, abortVars, pendingAborted,
                   pendingProcessed, obsVars>>
    /\ UNCHANGED lifeVars
    /\ UNCHANGED apartVars

\* the member inverted instead of raised
onCalibrationAborted_Toggle ==
    /\ m_calibrationAborted' = ~m_calibrationAborted
    /\ UNCHANGED <<m_minimumAccaptableQuality, m_achievedCalibrationQuality,
                   m_usedCalibrationType, m_calibrationInProgress,
                   m_calibrationProcessed, m_operationCompleted>>

\* XSensMVNCalibrator::onCalibrationAborted
onCalibrationAborted ==
    /\ m_calibrationAborted' = TRUE
    /\ UNCHANGED <<m_minimumAccaptableQuality, m_achievedCalibrationQuality,
                   m_usedCalibrationType, m_calibrationInProgress,
                   m_calibrationProcessed, m_operationCompleted>>

\* a second member raised
onCalibrationComplete_AlsoProcessed ==
    /\ m_operationCompleted' = TRUE
    /\ m_calibrationProcessed' = TRUE
    /\ UNCHANGED <<m_minimumAccaptableQuality, m_achievedCalibrationQuality,
                   m_usedCalibrationType, m_calibrationInProgress,
                   m_calibrationAborted>>

\* XSensMVNCalibrator::onCalibrationComplete
onCalibrationComplete ==
    /\ m_operationCompleted' = TRUE
    /\ UNCHANGED <<m_minimumAccaptableQuality, m_achievedCalibrationQuality,
                   m_usedCalibrationType, m_calibrationInProgress,
                   m_calibrationProcessed, m_calibrationAborted>>

\* XSensMVNCalibrator::onCalibrationProcessed
onCalibrationProcessed ==
    /\ m_calibrationProcessed' = TRUE
    /\ UNCHANGED <<m_minimumAccaptableQuality, m_achievedCalibrationQuality,
                   m_usedCalibrationType, m_calibrationInProgress,
                   m_calibrationAborted, m_operationCompleted>>

\* the engine confirms an abort command
DeliverAborted ==
    /\ registered
    /\ pendingAborted > 0
    /\ pendingAborted' = pendingAborted - 1
    /\ onCalibrationAborted
    /\ abortNotified' = (abortNotified \/ pc # "idle")
    /\ UNCHANGED <<calVars, sbdVars, abortVars, performed, clearing, pendingProcessed,
                   pendingComplete, cmds, abortSent, completeSinceFinalize>>
    /\ UNCHANGED lifeVars
    /\ UNCHANGED apartVars
    /\ UNCHANGED frames

\* the engine reports that a request has been completed
DeliverComplete ==
    /\ registered
    /\ pendingComplete > 0
    /\ pendingComplete' = pendingComplete - 1
    /\ onCalibrationComplete
    /\ completeSinceFinalize' = (completeSinceFinalize \/ pc \in {"finalWait", "finalCheck"})
    /\ UNCHANGED <<calVars, sbdVars, abortVars, performed, clearing, pendingAborted,
                   pendingProcessed, cmds, abortSent, abortNotified>>
    /\ UNCHANGED lifeVars
    /\ UNCHANGED apartVars
    /\ UNCHANGED frames

\* the engine reports that the collected data have been processed
DeliverProcessed ==
    /\ registered
    /\ pendingProcessed > 0
    /\ pendingProcessed' = pendingProcessed - 1
    /\ onCalibrationProcessed
    /\ UNCHANGED <<calVars, sbdVars, abortVars, performed, clearing, pendingAborted,
                   pendingComplete, obsVars>>
    /\ UNCHANGED lifeVars
    /\ UNCHANGED apartVars

(* --------------------------- getBodyDimensions ------------------------ *)

\* a double of the engine is held as a whole number of halves
Halves == 2

\* the estimate of a dimension the engine does not know, -1
UnknownEstimate == -2

\* estimates the engine may give: unknown, 0, 0.5 and 1.5
Estimates == {UnknownEstimate, 0, 1, 3}

\* bodyDimensionLabelList() as getBodyDimensions reads it
BodyDimList == {"ankleHeight", "hipHeight"}

\* maps the caller may hand in: empty, or filled by an earlier call
CallerMaps == UNION {[S -> Estimates \ {UnknownEstimate}] : S \in SUBSET BodyDimList}

\* static_cast<int>(value), line 129: the fraction is dropped
StaticCastInt(v) == IF v >= 0 THEN v \div Halves ELSE -((-v) \div Halves)

\* the test of line 129 left out
EstimateKnown_Always(v) == TRUE

\* the test of line 129
EstimateKnown(v) == StaticCastInt(v) # -1

\* std::map::insert, line 131: a key the map holds keeps its value
MapInsert(m, k, v) ==
    [l \in DOMAIN m \cup {k} |-> IF l \in DOMAIN m THEN m[l] ELSE v]

\* the for loop of lines 124-133 over the labels in L, begun with the map m
RECURSIVE InsertKnown(_, _)
InsertKnown(m, L) ==
    IF L = {} THEN m
    ELSE LET body == CHOOSE b \in L : TRUE
             value == gbdEstimate[body]
         IN InsertKnown(IF EstimateKnown(value) THEN MapInsert(m, body, value) ELSE m,
                        L \ {body})

\* XSensMVNCalibrator::getBodyDimensions, a const member function
getBodyDimensions ==
    /\ gbdRet = NoValue
    /\ IF ~gbdConnected
          THEN /\ gbdRet' = "false"
               /\ UNCHANGED dimensions
          ELSE /\ dimensions' = InsertKnown(dimensions, BodyDimList)
               /\ gbdRet' = "true"
    /\ UNCHANGED <<gbdConnected, gbdEstimate, gdName, gdDim, gdRet, gdEndRead>>
    /\ UNCHANGED gbdFrame

\* names getBodyDimension may be asked for: the labels and one that is none
BodyNames == BodyDimList \cup {"noSuchBody"}

\* values the caller's dim may hold before the call
CallerDims == {0, 3}

\* what reading through the end iterator may yield when it does not end the
\* process
EndValues == {0, 1}

\* lines 141-142: the local map after getBodyDimensions, whose result is
\* not looked at; it stays empty when the suit is not connected
LocalDimensions ==
    IF gbdConnected THEN InsertKnown(<<>>, BodyDimList) ELSE <<>>

\* line 144, it != dimensions.end(): find() gave an entry of the map
Found(m, bodyName) == bodyName \in DOMAIN m

\* XSensMVNCalibrator::getBodyDimension
getBodyDimension ==
    /\ gdRet = NoValue
    /\ IF Found(LocalDimensions, gdName)
          THEN /\ gdRet' = "false"
               /\ UNCHANGED <<gdDim, gdEndRead>>
          ELSE /\ gdEndRead' = TRUE
               /\ \/ /\ gdRet' = "crashed"
                     /\ UNCHANGED gdDim
                  \/ /\ gdDim' \in EndValues
                     /\ gdRet' = "true"
    /\ UNCHANGED <<gbdConnected, gbdEstimate, dimensions, gbdRet, gdName>>
    /\ UNCHANGED gbdFrame

\* a session on which getBodyDimensions is about to be called
InitGbd ==
    /\ Constructed
    /\ UnusedBut("gbd")
    /\ gbdConnected \in BOOLEAN
    /\ gbdEstimate \in [BodyDimList -> Estimates]
    /\ dimensions \in CallerMaps
    /\ gbdRet = NoValue
    /\ gdName \in BodyNames
    /\ gdDim \in CallerDims
    /\ gdRet = NoValue
    /\ gdEndRead = FALSE

NextGbd == getBodyDimensions \/ getBodyDimension

SpecGbd == InitGbd /\ [][NextGbd]_vars

(* ------------- the collection loop, for any phase list ---------------- *)

\* the for loop of calibrateWithType compares its unsigned index with
\* calibPhases.size() - 1, an unsigned value: the subtraction is made modulo
\* the range of the type.  The range is cut to 16 bits to stay within the
\* integers of the model checker; the lists are much shorter than that.
UnsignedRange == 2 ^ 16
Unsigned(n) == n % UnsignedRange

\* line 187: calibPhases.size() - 1
LoopBound(list) == Unsigned(Len(list) - 1)

\* iterations of the for loop that are followed
MaxIterations == 2

\* the lists calibrationPhaseList() may return: ascending frame numbers, the
\* empty list and a single boundary included
ShortPhaseLists ==
    {<<>>, <<0>>, <<2>>, <<0, 1>>, <<0, 2>>, <<1, 2>>, <<0, 1, 2>>}

\* what a read outside the array may yield when it does not end the process
OutsideValues == {0, 1}

\* calibPhases[i] for the index i of the code, counted from 0; g is what the
\* read yields when i is outside the list
ReadPhase(list, i, g) == IF i < Len(list) THEN list[i + 1] ELSE g

\* line 187, and lines 188-189 when the test passes
ForPhase ==
    /\ clPc = "for"
    /\ IF clPhase < LoopBound(clPhases)
          THEN /\ clPhase < MaxIterations
               /\ IF clPhase + 1 < Len(clPhases)
                     THEN /\ clStart' = ReadPhase(clPhases, clPhase, 0)
                          /\ clEnd' = ReadPhase(clPhases, clPhase + 1, 0)
                          /\ clPc' = "while"
                          /\ UNCHANGED clOutside
                     ELSE /\ clOutside' = TRUE
                          /\ \/ /\ clPc' = "crashed"
                                /\ UNCHANGED <<clStart, clEnd>>
                             \/ \E g, h \in OutsideValues :
                                    /\ clStart' = ReadPhase(clPhases, clPhase, g)
                                    /\ clEnd' = ReadPhase(clPhases, clPhase + 1, h)
                                    /\ clPc' = "while"
          ELSE /\ clPc' = "done"
               /\ UNCHANGED <<clStart, clEnd, clOutside>>
    /\ UNCHANGED <<clPhases, clPhase, clFrames>>
    /\ UNCHANGED clFrame

\* lines 192-203: the test of the while loop, one pose when it passes, the
\* test of the abort flag and the next index when it does not
WhileFrame ==
    /\ clPc = "while"
    /\ IF clStart < clEnd /\ ~m_calibrationAborted
          THEN /\ clFrames' = Append(clFrames, clStart)
               /\ clStart' = clStart + 1
               /\ UNCHANGED <<clPhase, clPc>>
          ELSE /\ clPc' = IF m_calibrationAborted THEN "failed" ELSE "for"
               /\ clPhase' = clPhase + 1
               /\ UNCHANGED <<clStart, clFrames>>
    /\ UNCHANGED <<clPhases, clEnd, clOutside>>
    /\ UNCHANGED clFrame

\* a session whose call has reached the for loop with some phase list
InitCl ==
    /\ Constructed
    /\ UnusedBut("cl")
    /\ clPhases \in ShortPhaseLists
    /\ clPhase = 0
    /\ clStart = 0
    /\ clEnd = 0
    /\ clPc = "for"
    /\ clFrames = <<>>
    /\ clOutside = FALSE

NextCl == ForPhase \/ WhileFrame

SpecCl == InitCl /\ [][NextCl]_vars

(* ---------------------- getLastCalibrationInfo ------------------------ *)

\* values the caller's quality variable may hold before the call
CallerQualities == {UNKNOWN, GOOD}

\* line 65: type is a reference, the assignment of line 67 reaches the caller
TypeAfterCall(callerType) == m_usedCalibrationType

\* line 65: quality is passed by value, the assignment of line 68 is made to
\* the copy and the caller's variable keeps its value
QualityAfterCall(callerQuality) == callerQuality

\* XSensMVNCalibrator::getLastCalibrationInfo, called by any thread
getLastCalibrationInfo(callerQuality) ==
    /\ life = "alive"
    /\ Calls < MaxCalls
    /\ gliCalls' = gliCalls + 1
    /\ gliType' = TypeAfterCall(gliType)
    /\ gliQuality' = QualityAfterCall(callerQuality)
    /\ UNCHANGED gliFrame

(* ------------------- IAnalogSensorHandler::getStatus ------------------ *)

\* the states yarp::dev::IAnalogSensor::getState gives for a channel
ChannelStates == {"AS_OK", "AS_ERROR", "AS_OVF", "AS_TIMEOUT"}

\* channels of the sensors that are tried
MaxChannels == 3

\* the states of the channels of a sensor, channel 0 first
ChannelLists == UNION {[1..n -> ChannelStates] : n \in 0..MaxChannels}

\* case AS_TIMEOUT without the test for an overflow seen before
TimeoutCase_Always(status) == "Timeout"

\* lines 65-70, case AS_TIMEOUT: an overflow seen before is kept
TimeoutCase(status) == IF status = "Overflow" THEN status ELSE "Timeout"

\* lines 48-53: the test of the interface and the initial status
StatusEntry ==
    /\ stPc = "call"
    /\ IF ~stInterface
          THEN /\ stRet' = "Unknown"
               /\ stPc' = "returned"
               /\ UNCHANGED stStatus
          ELSE /\ stStatus' = "Ok"
               /\ stPc' = "loop"
               /\ UNCHANGED stRet
    /\ UNCHANGED <<stInterface, stChannels, stI>>
    /\ UNCHANGED stFrame

\* lines 58-77: the test of the for loop and the switch on one channel
StatusChannel ==
    /\ stPc = "loop"
    /\ IF stI < Len(stChannels)
          THEN LET state == stChannels[stI + 1]
               IN IF state = "AS_ERROR"
                     THEN /\ stRet' = "Error"
                          /\ stPc' = "returned"
                          /\ UNCHANGED <<stStatus, stI>>
                     ELSE /\ stStatus' = CASE state = "AS_OVF" -> "Overflow"
                                            [] state = "AS_TIMEOUT" -> TimeoutCase(stStatus)
                                            [] OTHER -> stStatus
                          /\ stI' = stI + 1
                          /\ UNCHANGED <<stPc, stRet>>
          ELSE /\ stRet' = stStatus
               /\ stPc' = "returned"
               /\ UNCHANGED <<stStatus, stI>>
    /\ UNCHANGED <<stInterface, stChannels>>
    /\ UNCHANGED stFrame

\* a handler on which getStatus is about to be called
InitSt ==
    /\ Constructed
    /\ UnusedBut("st")
    /\ stInterface \in BOOLEAN
    /\ stChannels \in ChannelLists
    /\ stI = 0
    /\ stStatus = NoValue
    /\ stPc = "call"
    /\ stRet = NoValue

NextSt == StatusEntry \/ StatusChannel

SpecSt == InitSt /\ [][NextSt]_vars

(* ------------------------ IAnalogSensorToIWear ------------------------ *)

\* sensor types allocateSensor has a case for, and one it has none for
AllocatableTypes == {"Force3DSensor", "SkinSensor"}
SensorTypes == AllocatableTypes \cup {"Accelerometer"}

\* options.numberOfChannels and options.channelOffset as open() may read them
ChannelCounts == {1, 2}
ChannelOffsets == {0, 1}

\* what the handler of an attached sensor, whose interface is not null, may
\* give as its status when the sensor reads its data
HandlerStatuses == {"Ok", "Error", "Overflow", "Timeout"}

\* the PolyDriver pointers attach may be given: nullptr, a driver without
\* the IAnalogSensor view, or a driver with the view and the channels given
PolyDrivers ==
    {<<"nullptr", <<>>>>, <<"noView", <<>>>>}
        \cup {<<"analogSensor", channels>> : channels \in ChannelLists}

\* lines 461-494: the tests attach makes before it allocates the sensor
InterfaceAccepted(poly) ==
    /\ poly[1] # "nullptr"
    /\ poly[1] # "noView"
    /\ Len(poly[2]) # 0
    /\ Len(poly[2]) = devNumberOfChannels + devChannelOffset
    /\ \A i \in 1..Len(poly[2]) : poly[2][i] = "AS_OK"

\* Impl::allocateSensor: true when the type has a case
allocateSensor(type) == type \in AllocatableTypes

\* attach lowering firstRun whatever it returns
FirstRunAfterAttach_Lowered(ok) == FALSE

\* line 504: firstRun is lowered by an attach that reaches its end
FirstRunAfterAttach(ok) == IF ok THEN FALSE ELSE devFirstRun

\* IAnalogSensorToIWear::attach
DevAttach(poly) ==
    LET ok == InterfaceAccepted(poly) /\ allocateSensor(devSensorType)
    IN /\ devOp # "unused"
       /\ devSensor' = IF ok THEN "Ok" ELSE devSensor
       /\ devFirstRun' = FirstRunAfterAttach(ok)
       /\ devRet' = Returned(ok)
       /\ devAttached' = (devAttached \/ ok)
       /\ devOp' = "attach"
       /\ UNCHANGED <<devNumberOfChannels, devChannelOffset, devSensorType>>
       /\ UNCHANGED devFrame

\* IAnalogSensorToIWear::close: detach() does nothing, the sensor is dropped
DevClose ==
    /\ devOp # "unused"
    /\ devSensor' = NoValue
    /\ devRet' = "true"
    /\ devOp' = "close"
    /\ UNCHANGED <<devFirstRun, devNumberOfChannels, devChannelOffset,
                   devSensorType, devAttached>>
    /\ UNCHANGED devFrame

\* a data getter of the allocated sensor: setStatus(handler.getStatus())
DevSensorRead(status) ==
    /\ devOp # "unused"
    /\ devSensor # NoValue
    /\ devSensor' = status
    /\ devRet' = Returned(status = "Ok")
    /\ devOp' = "read"
    /\ UNCHANGED <<devFirstRun, devNumberOfChannels, devChannelOffset,
                   devSensorType, devAttached>>
    /\ UNCHANGED devFrame

\* IAnalogSensorToIWear::getStatus
DevGetStatus ==
    /\ devOp # "unused"
    /\ devRet' = IF devFirstRun THEN "WaitingForFirstRead"
                 ELSE IF devSensor = NoValue THEN "Error"
                 ELSE devSensor
    /\ devOp' = "getStatus"
    /\ UNCHANGED <<devFirstRun, devSensor, devNumberOfChannels, devChannelOffset,
                   devSensorType, devAttached>>
    /\ UNCHANGED devFrame

\* the device after the constructor and open()
InitDev ==
    /\ Constructed
    /\ UnusedBut("dev")
    /\ devFirstRun = TRUE
    /\ devSensor = NoValue
    /\ devNumberOfChannels \in ChannelCounts
    /\ devChannelOffset \in ChannelOffsets
    /\ devSensorType \in SensorTypes
    /\ devOp = "open"
    /\ devRet = "true"
    /\ devAttached = FALSE

NextDev ==
    \/ \E poly \in PolyDrivers : DevAttach(poly)
    \/ DevClose
    \/ \E status \in HandlerStatuses : DevSensorRead(status)
    \/ DevGetStatus

SpecDev == InitDev /\ [][NextDev]_vars

(* ----------------------------- IWearLogger ---------------------------- *)

\* the values of wearable::WearStatus
WearStatuses ==
    {"Ok", "Error", "Calibrating", "Overflow", "Timeout", "Unknown",
     "WaitingForFirstRead"}

\* the PolyDriver pointers attach may be given: nullptr, or a driver that
\* has the IWear view or not, and the IPreciselyTimed view or not
LoggerDrivers ==
    {<<"nullptr", FALSE, FALSE>>}
        \cup {<<"driver", iw, pt>> : iw \in BOOLEAN, pt \in BOOLEAN}

\* the statuses run() stops the thread for, those it waits for, the others
StatusKind(status) ==
    CASE status \in {"Error", "Unknown"} -> "stopping"
      [] status \in {"Calibrating", "WaitingForFirstRead"} -> "waiting"
      [] OTHER -> "logging"

\* the places of run() at which it calls iWear->getStatus(), in order
ReadPlaces == <<"while1", "while2", "if1", "if2", "warn">>

\* the status that ends the cycle at each of the four tests
EndingStatus ==
    [while1 |-> "Calibrating", while2 |-> "WaitingForFirstRead",
     if1 |-> "Error", if2 |-> "Unknown"]

\* the place after place in ReadPlaces, "log" after the last
NextPlace(place) ==
    LET i == CHOOSE k \in 1..Len(ReadPlaces) : ReadPlaces[k] = place
    IN IF i < Len(ReadPlaces) THEN ReadPlaces[i + 1] ELSE "log"

\* lines 205-215: the tests of the two pointers
RunBegin ==
    /\ lgOp # "unused"
    /\ lgPc = "idle"
    /\ lgOp' = "run"
    /\ lgReads' = {}
    /\ lgLogged' = FALSE
    /\ IF ~lgIWear \/ ~lgTimed
          THEN /\ lgNull' = TRUE
               /\ lgCycleStop' = TRUE
               /\ lgStopAsked' = TRUE
               /\ UNCHANGED lgPc
          ELSE /\ lgNull' = FALSE
               /\ lgCycleStop' = FALSE
               /\ lgPc' = "while1"
               /\ UNCHANGED lgStopAsked
    /\ UNCHANGED <<lgIWear, lgTimed, lgFirstRun, lgRunning, lgStatus, lgAttachRet,
                   lgWasDetached, lgFetches>>
    /\ UNCHANGED lgFrame

\* lines 217-238: one call of iWear->getStatus() and the test made of its
\* result; the second operand of each || is reached when the first is false.
\* The counter of lines 219-222 only paces a message and is left out.
RunRead ==
    /\ lgPc \in {ReadPlaces[k] : k \in 1..Len(ReadPlaces)}
    /\ lgReads' = lgReads \cup {StatusKind(lgStatus)}
    /\ IF lgPc # "warn" /\ lgStatus = EndingStatus[lgPc]
          THEN /\ lgPc' = "idle"
               /\ lgCycleStop' = (lgPc \in {"if1", "if2"})
               /\ lgStopAsked' = (lgStopAsked \/ lgPc \in {"if1", "if2"})
          ELSE /\ lgPc' = NextPlace(lgPc)
               /\ UNCHANGED <<lgCycleStop, lgStopAsked>>
    /\ UNCHANGED <<lgIWear, lgTimed, lgFirstRun, lgRunning, lgStatus, lgOp,
                   lgAttachRet, lgWasDetached, lgNull, lgLogged, lgFetches>>
    /\ UNCHANGED lgFrame

\* line 241
FirstRunAfterFetch == FALSE

\* lines 240-795: the sensors are fetched on the first run, then logged; a
\* sensor that cannot be read may end the cycle with askToStop()
RunLog(failed) ==
    /\ lgPc = "log"
    /\ IF lgFirstRun
          THEN /\ lgFirstRun' = FirstRunAfterFetch
               /\ lgFetches' = lgFetches + 1
          ELSE UNCHANGED <<lgFirstRun, lgFetches>>
    /\ lgLogged' = TRUE
    /\ lgCycleStop' = failed
    /\ lgStopAsked' = (lgStopAsked \/ failed)
    /\ lgPc' = "idle"
    /\ UNCHANGED <<lgIWear, lgTimed, lgRunning, lgStatus, lgOp, lgAttachRet,
                   lgWasDetached, lgNull, lgReads>>
    /\ UNCHANGED lgFrame

\* the device changes its status, in its own threads
DeviceStatus(status) ==
    /\ lgOp # "unused"
    /\ lgStatus # status
    /\ lgStatus' = status
    /\ UNCHANGED <<lgIWear, lgTimed, lgFirstRun, lgRunning, lgStopAsked, lgPc,
                   lgOp, lgAttachRet, lgWasDetached, lgNull, lgReads,
                   lgCycleStop, lgLogged, lgFetches>>
    /\ UNCHANGED lgFrame

\* line 998: the IWear view is asked for unless a pointer is already stored
IWearAfterAttach(poly) == lgIWear \/ (poly[1] # "nullptr" /\ poly[2])

\* line 1003: the IPreciselyTimed view is asked for once line 998 has passed
TimedAfterAttach(poly) ==
    lgTimed \/ (poly[1] # "nullptr" /\ ~lgIWear /\ poly[2] /\ poly[3])

\* IWearLogger::attach; configured and started are what
\* configureBufferManager() and start() return when they are called
LgAttach(poly, configured, started) ==
    LET viewed == /\ poly[1] # "nullptr"
                  /\ ~lgIWear /\ poly[2]
                  /\ ~lgTimed /\ poly[3]
        ok == viewed /\ configured /\ started
    IN /\ lgOp # "unused"
       /\ lgPc = "idle"
       /\ lgOp' = "attach"
       /\ lgWasDetached' = (~lgIWear /\ ~lgTimed)
       /\ lgIWear' = IWearAfterAttach(poly)
       /\ lgTimed' = TimedAfterAttach(poly)
       /\ lgRunning' = (lgRunning \/ ok)
       /\ lgStopAsked' = IF ok THEN FALSE ELSE lgStopAsked
       /\ lgAttachRet' = Returned(ok)
       /\ UNCHANGED <<lgFirstRun, lgStatus, lgPc, lgNull, lgReads, lgCycleStop,
                      lgLogged, lgFetches>>
       /\ UNCHANGED lgFrame

\* IWearLogger::detach: the thread is stopped, then the pointers are reset
LgDetach ==
    /\ lgOp # "unused"
    /\ lgPc = "idle"
    /\ lgOp' = "detach"
    /\ lgRunning' = FALSE
    /\ lgIWear' = FALSE
    /\ lgTimed' = FALSE
    /\ UNCHANGED <<lgFirstRun, lgStopAsked, lgStatus, lgPc, lgAttachRet,
                   lgWasDetached, lgNull, lgReads, lgCycleStop, lgLogged,
                   lgFetches>>
    /\ UNCHANGED lgFrame

\* the logger after the constructor and open(), with a device in any status
InitLg ==
    /\ Constructed
    /\ UnusedBut("lg")
    /\ LgConstructed
    /\ lgStatus \in WearStatuses
    /\ lgOp = "open"

NextLg ==
    \/ RunBegin
    \/ RunRead
    \/ \E failed \in BOOLEAN : RunLog(failed)
    \/ \E status \in WearStatuses : DeviceStatus(status)
    \/ \E poly \in LoggerDrivers, configured, started \in BOOLEAN :
          LgAttach(poly, configured, started)
    \/ LgDetach

SpecLg == InitLg /\ [][NextLg]_vars

(* ------------------- IWearLogger: the logger type --------------------- *)

\* strings a LoggerType option may be: the two that are known and another
LoggerOptions == {"matlab", "yarp", "none"}

\* options of the LoggerType lists that are tried
MaxOptions == 3

\* the LoggerType entry of the configuration: absent or neither a string nor
\* a list, a string, or a list of strings
LoggerConfigs ==
    {<<"absent", <<>>>>}
        \cup {<<"string", <<o>>>> : o \in LoggerOptions}
        \cup {<<"list", l>> : l \in UNION {[1..n -> LoggerOptions] : n \in 0..MaxOptions}}

\* IWearLogger::impl::setLoggerType: the type after the call made with str
setLoggerType(type, str) ==
    LET afterMatlab == IF str = "matlab" THEN "MATLAB" ELSE type
    IN IF str = "yarp"
          THEN IF afterMatlab = "MATLAB" THEN "MATLAB_YARP" ELSE "YARP"
          ELSE afterMatlab

\* lines 837-853: the type is reset, then the kind of the entry is looked at
LoadLoggerType ==
    /\ ltPc = "call"
    /\ CASE ltConfig[1] = "absent" ->
               /\ loggerType' = "MATLAB"
               /\ ltPc' = "done"
          [] ltConfig[1] = "list" ->
               /\ loggerType' = "NONE"
               /\ ltPc' = "loop"
          [] OTHER ->
               /\ loggerType' = setLoggerType("NONE", ltConfig[2][1])
               /\ ltPc' = "done"
    /\ UNCHANGED <<ltConfig, ltI>>
    /\ UNCHANGED ltFrame

\* lines 845-849: the test of the for loop and one option of the list
LoadListOption ==
    /\ ltPc = "loop"
    /\ IF ltI < Len(ltConfig[2])
          THEN /\ loggerType' = setLoggerType(loggerType, ltConfig[2][ltI + 1])
               /\ ltI' = ltI + 1
               /\ UNCHANGED ltPc
          ELSE /\ ltPc' = "done"
               /\ UNCHANGED <<loggerType, ltI>>
    /\ UNCHANGED ltConfig
    /\ UNCHANGED ltFrame

\* a logger whose open() is about to load the settings
InitLt ==
    /\ Constructed
    /\ UnusedBut("lt")
    /\ ltConfig \in LoggerConfigs
    /\ ltI = 0
    /\ ltPc = "call"
    /\ loggerType \in {"MATLAB", "YARP", "MATLAB_YARP", "NONE"}

NextLt == LoadLoggerType \/ LoadListOption

SpecLt == InitLt /\ [][NextLt]_vars

(* ------------------- IAnalogSensorHandler::getData -------------------- *)

\* the four overloads, named by what they fill
Overloads == {"double", "array3", "array4", "vector"}

\* sizes of the buffer, which attach resizes to options.numberOfChannels
BufferSizes == 0..5

\* offsets, of type size_t: small ones and the two largest values
Offsets == {0, 1, 2, UnsignedRange - 2, UnsignedRange - 1}

\* the number of values an overload copies from the buffer
ValuesWanted(overload, size) ==
    CASE overload = "double" -> 1
      [] overload = "array3" -> 3
      [] overload = "array4" -> 4
      [] OTHER -> size

\* lines 83, 96 and 109: the test that lets an overload read; the sums are
\* made in size_t, and the skin overload has no test
SizeAccepted(overload, size, offset) ==
    CASE overload = "double" -> size = 1
      [] overload = "array3" -> ~(size < Unsigned(3 + offset))
      [] overload = "array4" -> ~(size < Unsigned(4 + offset))
      [] OTHER -> TRUE

\* lines 90, 103, 116 and 123: the indices of buffer that are read
IndicesRead(overload, size, offset) ==
    {offset + k : k \in 0..(ValuesWanted(overload, size) - 1)}

\* IAnalogSensorHandler::getData
getData ==
    /\ datRet = NoValue
    /\ datOverload # NoValue
    /\ IF SizeAccepted(datOverload, datSize, datOffset)
          THEN /\ datRead' = IndicesRead(datOverload, datSize, datOffset)
               /\ datRet' = "true"
          ELSE /\ datRet' = "false"
               /\ UNCHANGED datRead
    /\ UNCHANGED <<datOverload, datSize, datOffset>>
    /\ UNCHANGED datFrame

\* a handler on which an overload of getData is about to be called
InitDat ==
    /\ Constructed
    /\ UnusedBut("dat")
    /\ datOverload \in Overloads
    /\ datSize \in BufferSizes
    /\ datOffset \in Offsets
    /\ datRead = {}
    /\ datRet = NoValue

NextDat == getData

SpecDat == InitDat /\ [][NextDat]_vars

(* ---------------------------- destruction ---------------------------- *)

\* line 58 left out
removeCallbackHandler_Missing == UNCHANGED registered

\* m_suitsConnector.removeCallbackHandler(this), line 58
removeCallbackHandler == registered' = FALSE

\* ~XSensMVNCalibrator, line 57.  The object is destroyed by its owner when no
\* thread is inside one of its member functions.
Destructor ==
    /\ life = "alive"
    /\ pc = "idle"
    /\ sbdPc = "idle"
    /\ cleanup
    /\ life' = "destroying"
    /\ UNCHANGED <<m_minimumAccaptableQuality, registered, calVars, sbdVars, abortVars,
                   engineVars, obsVars>>
    /\ UNCHANGED apartVars

\* ~XSensMVNCalibrator, line 58, and the end of the object's lifetime
DestructorEnd ==
    /\ life = "destroying"
    /\ removeCallbackHandler
    /\ life' = "destroyed"
    /\ UNCHANGED <<session, calVars, sbdVars, abortVars, engineVars, obsVars>>
    /\ UNCHANGED apartVars

(* --------------------------- specification ---------------------------- *)

CalStep ==
    \/ DiscardWait \/ DiscardCheck \/ Warmup \/ PhaseLoop \/ Collect \/ Pose
    \/ CollectCheck
    \/ ResetProcessed \/ ProcWait \/ ProcCheck
    \/ \E q \in XmeCalibrationQuality : Evaluate(q)
    \/ RejectWait \/ FinalWait \/ FinalCheck

Next ==
    \/ \E t \in CalibrationTypes : CalStart(t)
    \/ CalStep
    \/ AbortCalibration
    \/ \E dims \in SUBSET Labels, conn \in BOOLEAN : SbdCall(dims, conn)
    \/ SbdLoop
    \/ SbdWait
    \/ \E t \in CalibrationTypes : EngineClear(t)
    \/ DeliverAborted
    \/ DeliverComplete
    \/ DeliverProcessed
    \/ Destructor
    \/ DestructorEnd

Spec == Init /\ [][Next]_vars

\* the session with a caller of getLastCalibrationInfo
NextGli ==
    \/ Next
    \/ \E q \in CallerQualities : getLastCalibrationInfo(q)

SpecGli == Init /\ [][NextGli]_vars

(* ------------------------------ properties ---------------------------- *)

\* the step in which calibrateWithType returns
Returns == pc # "idle" /\ pc' = "idle"

\* the call has reached line 232 and read the result
Evaluated == quality # NoValue

\* the polling loops and the tests that follow them, by stage
DiscardStage == {"discardWait", "discardCheck"}
CollectionStage == {"collect", "collectCheck"}
ProcessingStage == {"procWait", "procCheck"}
FinalizeStage == {"finalWait", "finalCheck"}
BlockingStages == {DiscardStage, CollectionStage, ProcessingStage, FinalizeStage}
InBlockingStage == \E S \in BlockingStages : pc \in S
\* the positions of the tests that follow the loops
StageTests == {"discardCheck", "collectCheck", "procCheck", "finalCheck"}

\* C1: a call that has read the result has taken the rejection branch (abort
\* sent, false returned) when the achieved quality is below the threshold, and
\* the acceptance branch (finalize sent) when it is not; an accepted call
\* returns true unless m_calibrationAborted was seen true during the call
C1_QualityPolicy ==
    [][(Returns /\ Evaluated) =>
         LET Q == CalibrationQualitiesMap[quality]
             T == m_minimumAccaptableQuality
         IN  /\ Q < T => (cmds[Len(cmds)] = "abort" /\ ret' = "false")
             /\ Q >= T => cmds[Len(cmds)] = "finalize"
             /\ (Q >= T /\ ~abortNotified) => ret' = "true"]_vars

\* C1 witness: quality equal to the threshold has been accepted
C1_Witness ==
    /\ pc = "idle"
    /\ ret = "true"
    /\ quality = "XCalQ_Poor"
    /\ m_minimumAccaptableQuality = POOR
    /\ ~abortNotified

\* C2: a call of abortCalibration() returns m_calibrationInProgress, sends the
\* abort command exactly when it is true, and writes no member of the session
C2_AbortCalibration ==
    [][(userAborts' # userAborts) =>
         /\ abortRet' = Returned(m_calibrationInProgress)
         /\ pendingAborted' = pendingAborted + (IF m_calibrationInProgress THEN 1 ELSE 0)
         /\ UNCHANGED session]_vars

\* C2 witness: abortCalibration() has been refused outside a calibration
C2_Witness ==
    /\ abortRet = "false"
    /\ userAborts = 1
    /\ pendingAborted = 0
    /\ ~m_calibrationInProgress
    /\ pc = "idle"

\* C3: with m_calibrationAborted true in a blocking stage the thread is not
\* blocked (it has a step to take), no other thread lowers the flag, and the
\* thread's steps send no command and lead from the wait to the test after it
\* and from there to the return of false with m_usedCalibrationType empty
C3_AbortInBlockingStage ==
    /\ []((InBlockingStage /\ m_calibrationAborted) => ENABLED CalStep)
    /\ [][(InBlockingStage /\ m_calibrationAborted /\ pc' = pc) =>
            m_calibrationAborted']_vars
    /\ [][(InBlockingStage /\ m_calibrationAborted /\ pc' # pc) =>
            /\ cmds' = cmds
            /\ \/ \E S \in BlockingStages : pc \in S /\ pc' \in S /\ pc' \in StageTests
               \/ pc' = "idle" /\ ret' = "false" /\ m_usedCalibrationType' = NoType]_vars

\* C3 witness: a call aborted in the finalize wait has returned false
C3_Witness ==
    /\ pc = "idle"
    /\ ret = "false"
    /\ abortNotified
    /\ cmds # <<>>
    /\ cmds[Len(cmds)] = "finalize"
    /\ m_usedCalibrationType = NoType

\* C4: m_calibrationAborted rises only in a step in which the engine delivers an
\* onCalibrationAborted callback it owes for an abort command
C4_AbortedOnlyByNotification ==
    [][(~m_calibrationAborted /\ m_calibrationAborted') =>
         (pendingAborted > 0 /\ pendingAborted' = pendingAborted - 1)]_vars

\* C4 witness: an abort command has been sent and is not confirmed yet
C4_Witness ==
    /\ abortRet = "true"
    /\ pendingAborted = 1
    /\ m_calibrationInProgress
    /\ ~m_calibrationAborted
    /\ ~abortNotified

\* C5: a call that found no prior calibration, saw no abort, got its completion
\* callback after finalize and a quality that meets the threshold returns true
\* with the type and the quality recorded and m_calibrationInProgress false
C5_AcceptedRun ==
    [][(/\ Returns
        /\ Evaluated
        /\ cmds[1] # "clear"
        /\ ~abortNotified
        /\ completeSinceFinalize
        /\ CalibrationQualitiesMap[quality] >= m_minimumAccaptableQuality) =>
         /\ ret' = "true"
         /\ m_usedCalibrationType' = calibrationType
         /\ m_achievedCalibrationQuality' = CalibrationQualitiesMap[quality]
         /\ ~m_calibrationInProgress']_vars

\* C5 witness: Good against Acceptable has been accepted
C5_Witness ==
    /\ pc = "idle"
    /\ ret = "true"
    /\ cmds = <<"initialize", "start", "pose", "pose", "stop", "result", "finalize">>
    /\ quality = "XCalQ_Good"
    /\ m_minimumAccaptableQuality = ACCEPTABLE
    /\ m_usedCalibrationType = "Npose"
    /\ m_achievedCalibrationQuality = GOOD
    /\ ~m_calibrationInProgress
    /\ ~abortNotified
    /\ completeSinceFinalize

\* C6: a call whose result is below the threshold has sent abort and not
\* finalize, returns only once m_calibrationAborted is true, returns false, and
\* leaves the type empty, the quality Unknown and both flags false
C6_RejectedRun ==
    [][(/\ Returns
        /\ Evaluated
        /\ CalibrationQualitiesMap[quality] < m_minimumAccaptableQuality) =>
         /\ cmds[Len(cmds)] = "abort"
         /\ \A i \in 1..Len(cmds) : cmds[i] # "finalize"
         /\ m_calibrationAborted
         /\ ret' = "false"
         /\ m_usedCalibrationType' = NoType
         /\ m_achievedCalibrationQuality' = UNKNOWN
         /\ ~m_calibrationInProgress'
         /\ ~m_calibrationAborted']_vars

\* C6 witness: Poor against Acceptable has been rejected
C6_Witness ==
    /\ pc = "idle"
    /\ ret = "false"
    /\ quality = "XCalQ_Poor"
    /\ m_minimumAccaptableQuality = ACCEPTABLE
    /\ cmds[Len(cmds)] = "abort"
    /\ m_usedCalibrationType = NoType
    /\ m_achievedCalibrationQuality = UNKNOWN
    /\ ~m_calibrationInProgress
    /\ ~m_calibrationAborted

\* C7: the cleanup of a failure exit leaves the session as the constructor
\* does: type empty, quality Unknown, in progress, aborted and processed false,
\* operation completed true
C7_CleanupRestoresInitial ==
    [][(Returns /\ ret' = "false") =>
         /\ m_usedCalibrationType' = NoType
         /\ m_achievedCalibrationQuality' = UNKNOWN
         /\ m_calibrationInProgress' = FALSE
         /\ m_calibrationAborted' = FALSE
         /\ m_calibrationProcessed' = FALSE
         /\ m_operationCompleted' = TRUE]_vars

\* C8: after a call has returned false, setBodyDimensions with the device
\* connected and a non-empty map is not refused, and a further call during
\* which no abort command is sent and whose quality meets the threshold
\* returns true
C8_RetryAfterFailure ==
    [][/\ (/\ sbdCalls' # sbdCalls
           /\ pc = "idle"
           /\ ret = "false"
           /\ sbdConnected'
           /\ sbdArg' # {}) => sbdRet' # "false"
       /\ (/\ Returns
           /\ runs > 1
           /\ Evaluated
           /\ ~abortSent
           /\ CalibrationQualitiesMap[quality] >= m_minimumAccaptableQuality)
             => ret' = "true"]_vars

\* C9: a call returns true only if onCalibrationComplete ran after finalize was
\* sent
C9_CompletionAfterFinalize ==
    [][(Returns /\ ret' = "true") => completeSinceFinalize]_vars

\* C10: when the test after the processing wait or the finalize wait finds the
\* completion flag and m_calibrationAborted both true, the call returns false
\* with m_usedCalibrationType empty
C10_AbortHasPriority ==
    [][(/\ \/ pc = "procCheck" /\ m_calibrationProcessed
           \/ pc = "finalCheck" /\ m_operationCompleted
        /\ m_calibrationAborted
        /\ pc' # pc) =>
         /\ pc' = "idle"
         /\ ret' = "false"
         /\ m_usedCalibrationType' = NoType]_vars

\* C10 witness: the finalize wait is over with both flags true
C10_Witness ==
    /\ pc = "finalCheck"
    /\ m_operationCompleted
    /\ m_calibrationAborted
    /\ completeSinceFinalize

\* the positions of the while loop of lines 192-198 and of the test after it
PhaseWalk == {"collect", "pose", "collectCheck"}

\* C11 as claimed: once m_calibrationAborted is true while a phase is walked, the
\* thread sends no command, pose frames included, and leaves the walk only by
\* "cleanup(); return false"
C11_NoCommandAfterAbort ==
    [][(pc \in PhaseWalk /\ m_calibrationAborted /\ pc' # pc) =>
         /\ cmds' = cmds
         /\ \/ pc' \in PhaseWalk
            \/ pc' = "idle" /\ ret' = "false"]_vars

\* C11 amended: once m_calibrationAborted is true while a phase is walked, the
\* flag stays true; the thread requests at most the one pose frame whose loop
\* test had already passed, then goes from the loop test to the test after the
\* loop without a command, and from there to "cleanup(); return false"
C11_AtMostOnePoseAfterAbort ==
    /\ [][(pc \in PhaseWalk /\ m_calibrationAborted /\ pc' = pc) =>
            m_calibrationAborted']_vars
    /\ [][(pc \in PhaseWalk /\ m_calibrationAborted /\ pc' # pc) =>
            \/ pc = "pose" /\ pc' = "collect" /\ cmds' = Append(cmds, "pose")
            \/ pc = "collect" /\ pc' = "collectCheck" /\ cmds' = cmds
            \/ /\ pc = "collectCheck"
               /\ pc' = "idle"
               /\ ret' = "false"
               /\ cmds' = cmds
               /\ m_usedCalibrationType' = NoType
               /\ ~m_calibrationInProgress'
               /\ ~m_calibrationAborted']_vars

\* C11 witness: a call aborted while a phase was walked has returned false, a
\* pose frame being the last command it sent
C11_Witness ==
    /\ pc = "idle"
    /\ ret = "false"
    /\ abortNotified
    /\ cmds # <<>>
    /\ cmds[Len(cmds)] = "pose"

\* a step in which setBodyDimensions is called
SbdCalled == sbdCalls' # sbdCalls

\* C12 as claimed: a call made while the suit is not connected, while
\* m_operationCompleted is false or with an empty map returns false, calls
\* nothing of the suit connector but status(), sends no setBodyDimension and
\* leaves the session as it was
C12_FailsFastWithoutHandleCall ==
    [][(SbdCalled /\ (~sbdConnected' \/ ~m_operationCompleted \/ sbdArg' = {})) =>
         /\ sbdRet' = "false"
         /\ sbdPc' = "idle"
         /\ ~sbdQueried'
         /\ sbdApplied' = {}
         /\ pendingComplete' = pendingComplete
         /\ UNCHANGED session]_vars

\* C12 amended: such a call returns false, sends no setBodyDimension and
\* leaves the session as it was; beyond status() it calls nothing of the suit
\* connector, but for bodyDimensionLabelList(), which it does call when the
\* suit is connected and m_operationCompleted is true, the map being empty
C12_FailsFastWithoutCommand ==
    [][(SbdCalled /\ (~sbdConnected' \/ ~m_operationCompleted \/ sbdArg' = {})) =>
         /\ sbdRet' = "false"
         /\ sbdPc' = "idle"
         /\ sbdQueried' = (sbdConnected' /\ m_operationCompleted)
         /\ sbdApplied' = {}
         /\ pendingComplete' = pendingComplete
         /\ UNCHANGED session]_vars

\* C12 witness: a call with an empty map was refused after the label list was
\* read, the completion flag still standing
C12_Witness ==
    /\ sbdCalls > 0
    /\ sbdPc = "idle"
    /\ sbdRet = "false"
    /\ sbdArg = {}
    /\ sbdQueried
    /\ m_operationCompleted

C14_RefusedDuringCalibration ==
    [][(SbdCalled /\ m_calibrationInProgress) =>
         /\ sbdRet' = "false"
         /\ sbdPc' = "idle"
         /\ UNCHANGED session]_vars

\* steps in which the engine runs one of the three callbacks
AbortedDelivered == pendingAborted' < pendingAborted
CompleteDelivered == pendingComplete' < pendingComplete
ProcessedDelivered == pendingProcessed' < pendingProcessed

\* C15: a callback leaves its flag true, and a callback that finds its flag
\* true already, as the second of two deliveries in a row does, changes no
\* member and nothing of the running calibrateWithType call: its position,
\* its locals, the value it is to return and the commands it has sent
C15_DuplicateDelivery ==
    /\ [][AbortedDelivered => m_calibrationAborted']_vars
    /\ [][CompleteDelivered => m_operationCompleted']_vars
    /\ [][ProcessedDelivered => m_calibrationProcessed']_vars
    /\ [][(AbortedDelivered /\ m_calibrationAborted) =>
            UNCHANGED <<session, calVars, cmds>>]_vars
    /\ [][(CompleteDelivered /\ m_operationCompleted) =>
            UNCHANGED <<session, calVars, cmds>>]_vars
    /\ [][(ProcessedDelivered /\ m_calibrationProcessed) =>
            UNCHANGED <<session, calVars, cmds>>]_vars

\* C15 witness: during the first call the engine has confirmed two abort
\* commands, the user's and the one sent after the quality test, with no
\* cleanup between them
C15_Witness ==
    /\ pc = "rejectWait"
    /\ runs = 1
    /\ abortRet = "true"
    /\ pendingAborted = 0
    /\ m_calibrationAborted

\* C16: each callback raises its one flag, writes no other member, among them
\* m_calibrationInProgress, m_usedCalibrationType, m_achievedCalibrationQuality
\* and m_minimumAccaptableQuality, and sends nothing to the engine
C16_CallbackFrame ==
    /\ [][AbortedDelivered =>
            /\ m_calibrationAborted'
            /\ UNCHANGED <<m_minimumAccaptableQuality, m_achievedCalibrationQuality,
                           m_usedCalibrationType, m_calibrationInProgress,
                           m_calibrationProcessed, m_operationCompleted>>
            /\ UNCHANGED <<cmds, sbdApplied, clearing, performed, pendingComplete,
                           pendingProcessed>>]_vars
    /\ [][CompleteDelivered =>
            /\ m_operationCompleted'
            /\ UNCHANGED <<m_minimumAccaptableQuality, m_achievedCalibrationQuality,
                           m_usedCalibrationType, m_calibrationInProgress,
                           m_calibrationProcessed, m_calibrationAborted>>
            /\ UNCHANGED <<cmds, sbdApplied, clearing, performed, pendingAborted,
                           pendingProcessed>>]_vars
    /\ [][ProcessedDelivered =>
            /\ m_calibrationProcessed'
            /\ UNCHANGED <<m_minimumAccaptableQuality, m_achievedCalibrationQuality,
                           m_usedCalibrationType, m_calibrationInProgress,
                           m_calibrationAborted, m_operationCompleted>>
            /\ UNCHANGED <<cmds, sbdApplied, clearing, performed, pendingAborted,
                           pendingComplete>>]_vars

\* C16 witness: onCalibrationProcessed has run during the processing wait, the
\* other flags as they were: no abort seen, no completion since a cleanup
C16_Witness ==
    /\ pc = "procWait"
    /\ pendingProcessed = 0
    /\ m_calibrationProcessed
    /\ m_calibrationInProgress
    /\ ~m_calibrationAborted
    /\ ~m_operationCompleted

\* the values cleanup() stores, lines 345-348
Cleaned ==
    /\ m_usedCalibrationType = NoType
    /\ m_achievedCalibrationQuality = UNKNOWN
    /\ ~m_calibrationInProgress
    /\ ~m_calibrationAborted
    /\ ~m_calibrationProcessed
    /\ ~m_operationCompleted

\* steps in which cleanup() runs: a failure exit of calibrateWithType and the
\* first statement of the destructor
FailureReturn == Returns /\ ret' = "false"
SuccessReturn == Returns /\ ret' = "true"
Destroyed == life = "alive" /\ life' # "alive"
CleanupRuns == FailureReturn \/ Destroyed

\* C17: cleanup() leaves the type, the quality and the four flags at the same
\* values from whatever state it is run in, and run in the state a cleanup()
\* has left it changes no member
C17_CleanupIdempotent ==
    /\ [][CleanupRuns => Cleaned']_vars
    /\ [][(CleanupRuns /\ Cleaned) => UNCHANGED session]_vars

\* C17 witness: cleanup() has run twice in a row: at the exit of a call
\* aborted in the discard wait, the one notification the engine owed being
\* delivered by then, and in the destructor that followed
C17_Witness ==
    /\ life = "destroying"
    /\ runs = 1
    /\ ret = "false"
    /\ cmds = <<>>
    /\ sbdCalls = 0
    /\ userAborts = 1
    /\ abortRet = "true"
    /\ pendingAborted = 0
    /\ Cleaned

\* C18 as claimed: a return of false leaves the values of cleanup(); a return
\* of true leaves m_calibrationInProgress false, m_calibrationProcessed and
\* m_operationCompleted true, and the type and quality of the call recorded
C18_CleanupOnFailureOnly ==
    /\ [][FailureReturn => Cleaned']_vars
    /\ [][SuccessReturn =>
            /\ ~m_calibrationInProgress'
            /\ m_calibrationProcessed'
            /\ m_operationCompleted'
            /\ m_usedCalibrationType' = calibrationType
            /\ m_achievedCalibrationQuality' = CalibrationQualitiesMap[quality]]_vars

\* C19 as claimed: the four flags are the same after every return; an aborted
\* call returns through cleanup(), which leaves all four false, so they are
\* false after every return
C19_SameFlagsAfterReturn ==
    [][Returns =>
         /\ ~m_calibrationInProgress'
         /\ ~m_calibrationAborted'
         /\ ~m_calibrationProcessed'
         /\ ~m_operationCompleted']_vars

\* C19 amended: m_calibrationInProgress and m_calibrationAborted are false
\* after every return, accepted or not; a rejected call and an aborted call,
\* both returning false, leave the same session: the four flags false, the
\* type empty, the quality UNKNOWN
C19_SameFlagsAfterFailure ==
    /\ [][Returns => (~m_calibrationInProgress' /\ ~m_calibrationAborted')]_vars
    /\ [][FailureReturn =>
            /\ ~m_calibrationInProgress'
            /\ ~m_calibrationAborted'
            /\ ~m_calibrationProcessed'
            /\ ~m_operationCompleted'
            /\ m_usedCalibrationType' = NoType
            /\ m_achievedCalibrationQuality' = UNKNOWN]_vars

\* C19 witness: a call rejected for its quality has returned, after an
\* earlier call was aborted by the user before any quality was read; the
\* flags are those the aborted call left
C19_Witness ==
    /\ pc = "idle"
    /\ life = "alive"
    /\ runs = 2
    /\ ret = "false"
    /\ quality # NoValue
    /\ abortRet = "true"
    /\ Cleaned

\* C20: the engine holds the session as a callback handler as long as the
\* object lives, the destructor included until its last statement; the
\* destructor runs cleanup() first, the handler still registered, and removes
\* the handler last; from then on no callback runs and no member changes
C20_Lifecycle ==
    /\ [](registered <=> life # "destroyed")
    /\ [][Destroyed => (life' = "destroying" /\ Cleaned' /\ registered')]_vars
    /\ [][life = "destroying" =>
            (life' = "destroyed" => ~registered') /\ life' # "alive"]_vars
    /\ [][life = "destroyed" =>
            /\ ~AbortedDelivered /\ ~CompleteDelivered /\ ~ProcessedDelivered
            /\ UNCHANGED <<session, life, registered>>]_vars

\* C20 witness: the object is destroyed and a notification the engine still
\* owed it has not been delivered
C20_Witness ==
    /\ life = "destroyed"
    /\ ~registered
    /\ pendingComplete > 0

\* C21 as claimed: a call made while the suit is not connected returns false
\* and leaves the caller's map alone; any other call returns true, the map
\* holding exactly the labels whose estimate is not -1, each with its
\* estimate; no call changes the session or sends a command
C21_GetBodyDimensions ==
    [][(gbdRet' # gbdRet) =>
         /\ IF gbdConnected
               THEN /\ gbdRet' = "true"
                    /\ DOMAIN dimensions' =
                          {b \in BodyDimList : gbdEstimate[b] # UnknownEstimate}
                    /\ \A b \in DOMAIN dimensions' : dimensions'[b] = gbdEstimate[b]
               ELSE /\ gbdRet' = "false"
                    /\ dimensions' = dimensions
         /\ UNCHANGED mainVars]_vars

\* C21 amended: a call made while the suit is not connected returns false
\* and leaves the caller's map alone; any other call returns true, having
\* added to the caller's map exactly the labels whose estimate is not -1 and
\* that the map did not hold, each with its estimate, the entries the map
\* held being kept as they were; no call changes the session or sends a
\* command
C21_GetBodyDimensionsAdds ==
    [][(gbdRet' # gbdRet) =>
         /\ IF gbdConnected
               THEN /\ gbdRet' = "true"
                    /\ DOMAIN dimensions' = DOMAIN dimensions \cup
                          {b \in BodyDimList : gbdEstimate[b] # UnknownEstimate}
                    /\ \A b \in DOMAIN dimensions : dimensions'[b] = dimensions[b]
                    /\ \A b \in DOMAIN dimensions' \ DOMAIN dimensions :
                           dimensions'[b] = gbdEstimate[b]
               ELSE /\ gbdRet' = "false"
                    /\ dimensions' = dimensions
         /\ UNCHANGED mainVars]_vars

\* C21 witness: a call has returned true with the one label whose estimate
\* is known, 0.5, the label whose estimate is -1 left out
C21_Witness ==
    /\ gbdRet = "true"
    /\ gbdEstimate["ankleHeight"] = UnknownEstimate
    /\ gbdEstimate["hipHeight"] = 1
    /\ DOMAIN dimensions = {"hipHeight"}
    /\ dimensions["hipHeight"] = 1

\* C22 as claimed: in the processing wait, once the engine has delivered every
\* onCalibrationProcessed it owed, the one answering this call's stop command
\* among them, the wait is over: m_calibrationProcessed is true, or
\* m_calibrationAborted is
C22_ProcessedNotLost ==
    (pc = "procWait" /\ pendingProcessed = 0) => ProcessingWaitOver

\* C23: calibrateWithType returns false only from a state in which
\* m_calibrationAborted is true; the flag is raised by a delivered
\* onCalibrationAborted only; and a call of abortCalibration() changes neither
\* a member nor anything the polling loops test, nor the position of the
\* thread inside calibrateWithType
C23_FailureNeedsConfirmedAbort ==
    /\ [][FailureReturn => m_calibrationAborted]_vars
    /\ [][(~m_calibrationAborted /\ m_calibrationAborted') => AbortedDelivered]_vars
    /\ [][(userAborts' # userAborts) => UNCHANGED <<session, calVars, performed>>]_vars

\* C23 witness: a call the user aborted during the processing wait has
\* returned false, the engine having confirmed the abort
C23_Witness ==
    /\ pc = "idle"
    /\ ret = "false"
    /\ abortSent
    /\ abortNotified
    /\ abortRet = "true"
    /\ quality = NoValue
    /\ cmds # <<>>
    /\ cmds[Len(cmds)] = "stop"

\* C24: m_calibrationInProgress is true exactly while a thread is inside
\* calibrateWithType, whatever the stage; it is false in the constructed
\* session and after every return
C24_InProgressWhileRunning == m_calibrationInProgress <=> (pc # "idle")

\* C24 witness: after a first call that returned, a second call is in its
\* acceptance stage, the flag raised again
C24_Witness ==
    /\ runs = 2
    /\ pc = "finalWait"
    /\ m_calibrationInProgress

\* a step in which calibrateWithType is called
CalCalled == runs' # runs

\* a step in which calibrateWithType sends the command c
Sends(c) == cmds' # cmds /\ cmds' # <<>> /\ cmds'[Len(cmds')] = c

\* C25: a call for a type the engine holds a calibration of clears
\* m_usedCalibrationType and m_achievedCalibrationQuality, lowers
\* m_operationCompleted and sends one clear command, a call for another type
\* does none of this; no later command of the call is a clear; initialize is
\* sent only when the engine no longer holds a calibration of the type; and
\* the thread that finds m_calibrationAborted true in the discard stage
\* leaves it by returning false, no command sent
C25_DiscardStage ==
    /\ [][CalCalled =>
            IF isCalibrationPerformed(calibrationType')
               THEN /\ cmds' = <<"clear">>
                    /\ clearing' = clearing \cup {calibrationType'}
                    /\ m_usedCalibrationType' = NoType
                    /\ m_achievedCalibrationQuality' = UNKNOWN
                    /\ ~m_operationCompleted'
               ELSE /\ cmds' = <<>>
                    /\ UNCHANGED <<clearing, m_usedCalibrationType,
                                   m_achievedCalibrationQuality,
                                   m_operationCompleted>>]_vars
    /\ [](\A i \in 2..Len(cmds) : cmds[i] # "clear")
    /\ [][Sends("initialize") => ~isCalibrationPerformed(calibrationType)]_vars
    /\ [][(pc \in DiscardStage /\ m_calibrationAborted /\ pc' \notin DiscardStage) =>
            (pc' = "idle" /\ ret' = "false" /\ cmds' = cmds)]_vars

\* C25 witness: initialize has been sent after the clear command, the engine
\* having dropped the earlier calibration
C25_Witness ==
    /\ pc = "warmup"
    /\ cmds = <<"clear", "initialize">>
    /\ ~isCalibrationPerformed(calibrationType)

\* s is an initial part of t
IsPrefix(s, t) == Len(s) <= Len(t) /\ \A i \in 1..Len(s) : s[i] = t[i]

\* the commands of a whole call: discard or not, k pose frames, the branch x
RunCommands(head, k, x) ==
    head \o <<"initialize", "start">> \o [i \in 1..k |-> "pose"]
         \o <<"stop", "result", x>>

\* the number of pose commands among the commands sent
PosesSent == Cardinality({i \in 1..Len(cmds) : cmds[i] = "pose"})

\* C26: the commands a call has sent are an initial part of
\* [clear] initialize start pose* stop result (finalize | abort); the frames
\* requested are b0, b0+1, ... in ascending order, one for each pose command;
\* once stop is sent they are all of b0 .. bn-1, bn the last boundary; so
\* stop follows the walk of every phase and finalize follows stop and result
C26_CommandOrder ==
    /\ LET head == IF cmds # <<>> /\ cmds[1] = "clear" THEN <<"clear">> ELSE <<>>
       IN \E x \in {"finalize", "abort"} :
              IsPrefix(cmds, RunCommands(head, PosesSent, x))
    /\ Len(frames) = PosesSent
    /\ \A i \in 1..Len(frames) : frames[i] = calibPhases[1] + (i - 1)
    /\ (\E i \in 1..Len(cmds) : cmds[i] = "stop") =>
           Len(frames) = calibPhases[Len(calibPhases)] - calibPhases[1]

\* C26 witness: a call whose only phase runs from frame 1 to frame 3 has
\* requested frames 1 and 2 and then sent stop, result and finalize
C26_Witness ==
    /\ calibPhases = <<1, 3>>
    /\ frames = <<1, 2>>
    /\ cmds = <<"initialize", "start", "pose", "pose", "stop", "result", "finalize">>

\* C27 as claimed: the completion of a setBodyDimension command is not lost:
\* when setBodyDimensions polls after having sent a command and the engine
\* has delivered every onCalibrationComplete it owed, with no clear request
\* left to answer, m_operationCompleted is true and the call can return
C27_CompletionNotLost ==
    (sbdPc = "wait" /\ sbdApplied # {} /\ pendingComplete = 0 /\ clearing = {}) =>
        m_operationCompleted

\* C28 as claimed: a call during which no abort command went to the engine,
\* from abortCalibration() or from the rejection of line 260, does not return
\* false
C28_NoAbortNoFailure == [][FailureReturn => abortSent]_vars

\* C29 as claimed: setBodyDimensions does not poll for a completion that no
\* command can bring: when it polls having sent no setBodyDimension, the
\* engine owing no onCalibrationComplete and answering no clear request,
\* m_operationCompleted is true and the call can return
C29_NoWaitWithoutCommand ==
    (sbdPc = "wait" /\ sbdApplied = {} /\ pendingComplete = 0 /\ clearing = {}) =>
        m_operationCompleted

\* the call has sent startCalibration
CollectionStarted == \E i \in 1..Len(cmds) : cmds[i] = "start"

\* C30 as claimed: while m_calibrationAborted is true in a call that has not
\* yet sent start, the call sends neither start nor stop nor finalize
C30_AbortBeforeCollection ==
    [][(pc # "idle" /\ m_calibrationAborted /\ ~CollectionStarted) =>
         (~Sends("start") /\ ~Sends("stop") /\ ~Sends("finalize"))]_vars

\* C31: for a phase list with fewer than two boundaries the for loop has no
\* iteration: its bound size() - 1 is the number below the size (it does not
\* wrap around), no index outside the list is read and no frame is requested.
C31_ShortListNoIteration ==
    (clPc # "unused" /\ Len(clPhases) < 2)
        => /\ LoopBound(clPhases) = Len(clPhases) - 1
           /\ clPc \in {"for", "done"}
           /\ clPhase = 0
           /\ ~clOutside
           /\ clFrames = <<>>

\* C32: getBodyDimension returns true with dim set to the estimate of the
\* engine exactly when the suit is connected and bodyName is a label whose
\* estimate is not the unknown sentinel; otherwise it returns false, dim is
\* what it was and no entry the map does not hold is read.
C32_GetBodyDimension ==
    gdRet # NoValue =>
        IF /\ gbdConnected
           /\ gdName \in BodyDimList
           /\ gbdEstimate[gdName] # UnknownEstimate
           THEN gdRet = "true" /\ gdDim = gbdEstimate[gdName] /\ ~gdEndRead
           ELSE gdRet = "false" /\ ~gdEndRead

\* a step that is a call of getLastCalibrationInfo
GliCalled == gliCalls' # gliCalls

\* C33: getLastCalibrationInfo called after calibrateWithType(T) has returned
\* true with the quality Q leaves (T, Q) in the caller's two variables, and
\* called on a session cleanup() has reset it leaves (no type, UNKNOWN).
C33_LastCalibrationInfo ==
    [][GliCalled =>
         /\ (pc = "idle" /\ ret = "true" /\ m_usedCalibrationType # NoType)
               => /\ gliType' = calibrationType
                  /\ gliQuality' = m_achievedCalibrationQuality
         /\ Cleaned
               => /\ gliType' = NoType
                  /\ gliQuality' = UNKNOWN]_vars

\* the states the channels of the sensor are in, whatever their order
StatesPresent == {stChannels[i] : i \in 1..Len(stChannels)}

\* C34: getStatus returns Unknown when no interface is attached; otherwise
\* Error if some channel is AS_ERROR, else Overflow if some channel is AS_OVF,
\* else Timeout if some channel is AS_TIMEOUT, else Ok: the result depends on
\* which states are present, not on the order of the channels.
C34_StatusCombination ==
    stPc = "returned" =>
        stRet = IF ~stInterface THEN "Unknown"
                ELSE IF "AS_ERROR" \in StatesPresent THEN "Error"
                ELSE IF "AS_OVF" \in StatesPresent THEN "Overflow"
                ELSE IF "AS_TIMEOUT" \in StatesPresent THEN "Timeout"
                ELSE "Ok"

\* C34 witness: the call has returned Overflow for a sensor whose timed-out
\* channel comes after the overflowed one
C34_Witness ==
    /\ stPc = "returned"
    /\ stRet = "Overflow"
    /\ \E i, j \in 1..Len(stChannels) :
          i < j /\ stChannels[i] = "AS_OVF" /\ stChannels[j] = "AS_TIMEOUT"

\* C35: getStatus returns WaitingForFirstRead as long as no attach has
\* returned true, a failed attach included; once an attach has returned true
\* it returns the status of the allocated sensor, or Error when the device
\* holds no sensor.
C35_DeviceStatus ==
    /\ devOp = "getStatus" =>
          devRet = IF ~devAttached THEN "WaitingForFirstRead"
                   ELSE IF devSensor = NoValue THEN "Error"
                   ELSE devSensor
    /\ (devOp # "unused" /\ ~devAttached) => devFirstRun /\ devSensor = NoValue

\* C35 witness: getStatus has returned Error on a device that was attached
\* and then closed
C35_Witness ==
    /\ devOp = "getStatus"
    /\ devAttached
    /\ devSensor = NoValue
    /\ devRet = "Error"

\* a cycle of run() is over
CycleOver == lgOp = "run" /\ lgPc = "idle"

\* C36: a cycle that finds a null pointer, or reads no status but Error and
\* Unknown, calls askToStop() and does not reach the logging; a cycle that
\* reads no status but Calibrating and WaitingForFirstRead does not reach
\* the logging and does not call askToStop(); the sensors are fetched once,
\* by the first cycle that reaches the logging.
C36_StatusGate ==
    /\ CycleOver =>
          /\ lgNull => lgCycleStop /\ ~lgLogged
          /\ lgReads = {"stopping"} => lgCycleStop /\ ~lgLogged
          /\ lgReads = {"waiting"} => ~lgCycleStop /\ ~lgLogged
          /\ lgLogged => lgFetches = 1
    /\ lgFetches <= 1
    /\ lgFetches = 0 <=> lgFirstRun

\* C37: an attach that returns false on a logger whose two pointers were
\* null leaves them null, whatever made it fail.
C37_FailedAttachDetached ==
    (lgOp = "attach" /\ lgAttachRet = "false" /\ lgWasDetached)
        => ~lgIWear /\ ~lgTimed

\* the options of the list of the configuration, whatever their order
OptionsPresent == {ltConfig[2][i] : i \in 1..Len(ltConfig[2])}

\* C38: the type loaded from a list depends on which options the list
\* holds, not on their order: MATLAB_YARP when it holds both "matlab" and
\* "yarp", MATLAB when it holds "matlab" only, YARP when it holds "yarp"
\* only.
C38_LoggerTypeOrder ==
    (ltPc = "done" /\ ltConfig[1] = "list") =>
        /\ OptionsPresent = {"matlab", "yarp"} => loggerType = "MATLAB_YARP"
        /\ OptionsPresent = {"matlab"} => loggerType = "MATLAB"
        /\ OptionsPresent = {"yarp"} => loggerType = "YARP"

\* C39: whatever the overload and the offset, a call of getData reads no
\* index at or above buffer.size(), and when the offset plus the number of
\* values wanted exceeds buffer.size() it returns false having read nothing.
C39_GetDataInBounds ==
    datRet # NoValue =>
        /\ \A i \in datRead : i < datSize
        /\ datOffset + ValuesWanted(datOverload, datSize) > datSize
              => datRet = "false" /\ datRead = {}

====
